---- MODULE Spec2Model ----
(***************************************************************************)
(* Virtual memory core of Weenix: memory objects (anonymous, shadow,       *)
(* file-backed), the per-process address-space map, mmap/munmap/brk, the   *)
(* page-fault handler and fork with copy-on-write.                         *)
(*                                                                         *)
(* Addresses are bytes, vfn/pagenum are page numbers.  A page frame is     *)
(* identified by the pair (mmobj, pagenum) it is cached under; the         *)
(* contents of a page are abstracted to one value of 0..MaxVal.            *)
(***************************************************************************)
EXTENDS Integers, Sequences, FiniteSets, TLC

(* ------------------------------ bounds --------------------------------- *)
\* first page number of the user range (USER_MEM_LOW / PAGE_SIZE), scaled
UserLowPn == 1
\* number of pages of the user range, scaled
NumUserPages == 4
\* number of mmobj slots of the slab allocators
MaxObjs == 8
\* number of process slots
MaxProcs == 3
\* page contents are values of 0..MaxVal
MaxVal == 1
\* width of the unsigned words holding vma_off and page indexes, scaled
WordBits == 16
\* largest mapping length, in pages, that the system calls are tried with
MaxLenPages == 3
\* number of system calls in a run of the address-space specification
MaxMapSteps == 3
\* number of operations in a run of the copy-on-write specification
MaxCowSteps == 5
\* number of operations in a run of the exit specification
MaxReapSteps == 5
\* number of operations in a run of the page-fault specification
MaxFaultSteps == 4
\* number of operations in a run of the mmap-argument specification
MaxArgSteps == 3
\* number of operations in a run of the heap specification
MaxBrkSteps == 4
MaxForkSteps == 3
MaxProcSteps == 5
MaxBusySteps == 6
\* number of vmarea slots of the slab allocator
MaxAreas == 4
\* number of bottom objects: the file's mmobj and the anonymous objects
MaxBottoms == 3
\* number of operations in a run of the vmarea-list specification
MaxLinkSteps == 4
\* largest file offset, in pages, that mappings are made at
MaxOffPages == 2
\* number of operations in a run of the file-offset specification
MaxOffSteps == 3
\* number of operations in a run of the vmmap-allocation specification
MaxVmSteps == 6
\* number of slots of a descriptor table (NFILES), scaled
NumFiles == 3
\* number of operations in a run of the descriptor specification
MaxFdSteps == 4
\* number of operations in a run of the terminal specification
MaxTtySteps == 4
\* number of PIDs (PROC_MAX_COUNT), scaled
ProcMaxCount == 4
\* number of proc structures the allocator can hand out
MaxProcSlots == 5
\* number of operations in a run of the PID specification
MaxPidSteps == 6
\* number of operations in a run of the writable-entry specification
MaxWrSteps == 3
\* number of operations in a run of the kill specification
MaxKillSteps == 4

(* --------------------------- program constants ------------------------- *)
PAGE_SIZE == 4096
NULL == 0
ENOMEM == 12
EINVAL == 22
EFAULT == 14
EBADF == 9
EACCES == 13
EMFILE == 24
\* values of TTY_BUF_SIZE_T (uint8_t) and its size in bytes
TtyIndexMod == 256
TtyIndexBytes == 1
EISDIR == 21
ENOTDIR == 20

UserHighPn == UserLowPn + NumUserPages
USER_MEM_LOW == UserLowPn * PAGE_SIZE
USER_MEM_HIGH == UserHighPn * PAGE_SIZE

ADDR_TO_PN(addr) == addr \div PAGE_SIZE
PN_TO_ADDR(pn) == pn * PAGE_SIZE
PAGE_ALIGNED(addr) == addr % PAGE_SIZE = 0
PAGE_ALIGN_UP(addr) == ((addr + PAGE_SIZE - 1) \div PAGE_SIZE) * PAGE_SIZE

\* arithmetic of uint32_t words (vma_off, page numbers)
WordMod == 2 ^ WordBits
U32(x) == x % WordMod

Objs == 1 .. MaxObjs
Procs == 1 .. MaxProcs
Vals == 0 .. MaxVal
UserPages == UserLowPn .. (UserHighPn - 1)

PROT_NONE == {}
PROT_READ == {"r"}
PROT_WRITE == {"w"}
PROT_EXEC == {"x"}
MAP_SHARED == {"shared"}
MAP_PRIVATE == {"private"}
MAP_FIXED == {"fixed"}
MAP_ANON == {"anon"}
FAULT_WRITE == {"w"}
FAULT_EXEC == {"x"}
FMODE_READ == {"r"}
FMODE_WRITE == {"w"}
FMODE_APPEND == {"a"}
VMMAP_DIR_LOHI == "lohi"
VMMAP_DIR_HILO == "hilo"

\* bit test  a & b
And(a, b) == (a \cap b) # {}

(* ------------------------------ mmobj ---------------------------------- *)
\* the resident pages of an object: pagenum -> contents
NoPages == [i \in {} |-> 0]

FreeObj ==
  [kind |-> "free", mmo_refcount |-> 0, mmo_shadowed |-> NULL,
   mmo_bottom_obj |-> NULL, mmo_respages |-> NoPages]

\* a page frame is named by the object and page number it caches
NoFrame == <<NULL, NULL>>

mmo_nrespages(ob) == Cardinality(DOMAIN ob.mmo_respages)

\* the vnode of the one regular file lives in slot 1
FileObj == 1

\* contents of the file's blocks on disk
FileData(pagenum) == (pagenum + 1) % (MaxVal + 1)

FreeSlots(os) == {o \in Objs : os[o].kind = "free"}

slab_obj_alloc(os) ==
  IF FreeSlots(os) = {} THEN NULL
  ELSE CHOOSE o \in FreeSlots(os) : \A q \in FreeSlots(os) : o <= q

\* mmobj_init and the initial reference
anon_create(os) ==
  LET o == slab_obj_alloc(os) IN
  [obj |-> o,
   objs |-> IF o = NULL THEN os
            ELSE [os EXCEPT ![o] = [FreeObj EXCEPT !.kind = "anon", !.mmo_refcount = 1]]]

shadow_create(os) ==
  LET o == slab_obj_alloc(os) IN
  [obj |-> o,
   objs |-> IF o = NULL THEN os
            ELSE [os EXCEPT ![o] = [FreeObj EXCEPT !.kind = "shadow", !.mmo_refcount = 1]]]

mmobj_bottom_obj(os, o) ==
  IF os[o].mmo_shadowed # NULL THEN os[o].mmo_bottom_obj ELSE o

DropPage(pages, pagenum) == [i \in (DOMAIN pages) \ {pagenum} |-> pages[i]]

MinOf(S) == CHOOSE x \in S : \A y \in S : x <= y
MaxOf(S) == CHOOSE x \in S : \A y \in S : y <= x

RECURSIVE pframe_get(_, _, _)
RECURSIVE put(_, _)
RECURSIVE shadow_fillpage_loop(_, _, _)
RECURSIVE shadow_put_loop(_, _, _)
RECURSIVE anon_put_loop(_, _, _)
RECURSIVE shadow_lookuppage_loop(_, _, _)

\* the page cache: uncache a frame and tell its object
pframe_free(os, o, pagenum) ==
  put([os EXCEPT ![o].mmo_respages = DropPage(@, pagenum)], o)

\* body of the while loop of shadow_fillpage, entered with o = cur
shadow_fillpage_loop(os, cur, pagenum) ==
  IF cur = NULL THEN [objs |-> os, status |-> -1, val |-> 0]
  ELSE IF os[cur].mmo_shadowed # NULL
  THEN IF pagenum \in DOMAIN os[cur].mmo_respages
       THEN [objs |-> os, status |-> 0, val |-> os[cur].mmo_respages[pagenum]]
       ELSE shadow_fillpage_loop(os, os[cur].mmo_shadowed, pagenum)
  ELSE LET r == pframe_get(os, cur, pagenum) IN
       [objs |-> r.objs, status |-> 0, val |-> r.objs[cur].mmo_respages[pagenum]]

\* a fill that goes straight to the bottom object, past the shadows between
shadow_fillpage_bottom(os, o, pagenum) ==
  shadow_fillpage_loop(os, mmobj_bottom_obj(os, o), pagenum)

shadow_fillpage(os, o, pagenum) ==
  shadow_fillpage_loop(os, os[o].mmo_shadowed, pagenum)

anon_fillpage(os, o, pagenum) == [objs |-> os, status |-> 0, val |-> 0]

\* the vnode's fillpage reads the block from disk
file_fillpage(os, o, pagenum) == [objs |-> os, status |-> 0, val |-> FileData(pagenum)]

\* the page cache: the frame of (o, pagenum), allocated and filled on a miss
pframe_get(os, o, pagenum) ==
  IF pagenum \in DOMAIN os[o].mmo_respages
  THEN [objs |-> os, status |-> 0, pf |-> <<o, pagenum>>]
  ELSE LET os1 == [os EXCEPT ![o].mmo_refcount = @ + 1,
                             ![o].mmo_respages = (pagenum :> 0) @@ @]
           fill == CASE os[o].kind = "shadow" -> shadow_fillpage(os1, o, pagenum)
                     [] os[o].kind = "anon" -> anon_fillpage(os1, o, pagenum)
                     [] OTHER -> file_fillpage(os1, o, pagenum)
       IN [objs |-> [fill.objs EXCEPT ![o].mmo_respages[pagenum] = fill.val],
           status |-> fill.status, pf |-> <<o, pagenum>>]

pframe_get_resident(os, o, pagenum) ==
  IF pagenum \in DOMAIN os[o].mmo_respages THEN <<o, pagenum>> ELSE NoFrame

\* the list_iterate loop of shadow_put over the resident pages in todo
shadow_put_loop(os, o, todo) ==
  IF todo = {} THEN os
  ELSE LET pagenum == MinOf(todo)
           os1 == [os EXCEPT ![o].mmo_refcount = @ + 1]
       IN shadow_put_loop(pframe_free(os1, o, pagenum), o, todo \ {pagenum})

shadow_put(os, o) ==
  LET os1 == [os EXCEPT ![o].mmo_refcount = @ - 1] IN
  IF os1[o].mmo_refcount = mmo_nrespages(os1[o])
  THEN LET os2 == shadow_put_loop(os1, o, DOMAIN os1[o].mmo_respages)
           os3 == put(os2, os2[o].mmo_shadowed)
       IN [os3 EXCEPT ![o] = FreeObj]
  ELSE os1

\* the list_iterate loop of anon_put
anon_put_loop(os, o, todo) ==
  IF todo = {} THEN os
  ELSE LET pagenum == MinOf(todo)
       IN anon_put_loop(pframe_free(os, o, pagenum), o, todo \ {pagenum})

\* an anon_put that never reaps the object
anon_put_keep(os, o) == os

anon_put(os, o) ==
  IF os[o].mmo_refcount - 1 = mmo_nrespages(os[o])
  THEN LET os2 == anon_put_loop(os, o, DOMAIN os[o].mmo_respages)
           os3 == [os2 EXCEPT ![o].mmo_refcount = @ - 1]
       IN [os3 EXCEPT ![o] = FreeObj]
  ELSE os

\* the vnode's put: vput drops one reference on the vnode
file_put(os, o) == [os EXCEPT ![o].mmo_refcount = @ - 1]

\* o->mmo_ops->put(o)
put(os, o) ==
  CASE os[o].kind = "shadow" -> shadow_put(os, o)
    [] os[o].kind = "anon" -> anon_put(os, o)
    [] os[o].kind = "file" -> file_put(os, o)
    [] OTHER -> os

\* a ref that takes no reference
ref_skip(os, o) == os

\* o->mmo_ops->ref(o): shadow_ref, anon_ref, vref
ref(os, o) == [os EXCEPT ![o].mmo_refcount = @ + 1]

\* the walk of shadow_lookuppage with forwrite = 0, at object cur
shadow_lookuppage_loop(os, cur, pagenum) ==
  IF cur = NULL THEN [objs |-> os, status |-> -1, pf |-> NoFrame]
  ELSE IF os[cur].mmo_shadowed # NULL
  THEN IF pframe_get_resident(os, cur, pagenum) # NoFrame
       THEN [objs |-> os, status |-> 0, pf |-> <<cur, pagenum>>]
       ELSE shadow_lookuppage_loop(os, os[cur].mmo_shadowed, pagenum)
  ELSE pframe_get(os, cur, pagenum)

\* a read lookup whose walk starts below o
shadow_lookuppage_below(os, o, pagenum, forwrite) ==
  IF forwrite THEN pframe_get(os, o, pagenum)
  ELSE shadow_lookuppage_loop(os, os[o].mmo_shadowed, pagenum)

\* a lookup that brings the page into o itself, for reading too
shadow_lookuppage_own(os, o, pagenum, forwrite) == pframe_get(os, o, pagenum)

shadow_lookuppage(os, o, pagenum, forwrite) ==
  IF forwrite THEN pframe_get(os, o, pagenum)
  ELSE shadow_lookuppage_loop(os, o, pagenum)

anon_lookuppage(os, o, pagenum, forwrite) == pframe_get(os, o, pagenum)

\* the vnode's lookuppage goes to the page cache
file_lookuppage(os, o, pagenum, forwrite) == pframe_get(os, o, pagenum)

\* o->mmo_ops->lookuppage(o, pagenum, forwrite, &pf)
pframe_lookup(os, o, pagenum, forwrite) ==
  CASE os[o].kind = "shadow" -> shadow_lookuppage(os, o, pagenum, forwrite)
    [] os[o].kind = "anon" -> anon_lookuppage(os, o, pagenum, forwrite)
    [] OTHER -> file_lookuppage(os, o, pagenum, forwrite)

(* ------------------------------ vmmap ---------------------------------- *)
\* a vmmap is the sequence of its vmareas in list order (vmm_list)
vmarea_alloc(start, end, off, prot, flags, obj) ==
  [vma_start |-> start, vma_end |-> end, vma_off |-> off, vma_prot |-> prot,
   vma_flags |-> flags, vma_obj |-> obj]

NoArea == vmarea_alloc(NULL, NULL, NULL, {}, {}, NULL)

vmmap_create == << >>

\* position at which vmmap_insert links newvma
vmmap_insert_pos(map, newvma) ==
  LET later == {k \in 1 .. Len(map) : newvma.vma_start < map[k].vma_start} IN
  IF later = {} THEN Len(map) + 1 ELSE MinOf(later)

vmmap_insert(map, newvma) ==
  LET pos == vmmap_insert_pos(map, newvma) IN
  SubSeq(map, 1, pos - 1) \o <<newvma>> \o SubSeq(map, pos, Len(map))

\* index of the area that vfn lies in, NULL when unmapped
vmmap_lookup(map, vfn) ==
  LET hits == {k \in 1 .. Len(map) : map[k].vma_start <= vfn /\ vfn < map[k].vma_end} IN
  IF hits = {} THEN NULL ELSE MinOf(hits)

RECURSIVE find_range_lohi(_, _, _, _)
find_range_lohi(map, i, low, npages) ==
  IF i > Len(map)
  THEN IF U32(UserHighPn - low) >= npages THEN low ELSE -1
  ELSE IF U32(map[i].vma_start - low) >= npages THEN low
       ELSE find_range_lohi(map, i + 1, map[i].vma_end, npages)

RECURSIVE find_range_hilo(_, _, _, _)
find_range_hilo(map, i, high, npages) ==
  IF i < 1
  THEN IF U32(high - UserLowPn) >= npages THEN high - npages ELSE -1
  ELSE IF U32(high - map[i].vma_end) >= npages THEN high - npages
       ELSE find_range_hilo(map, i - 1, map[i].vma_start, npages)

vmmap_find_range(map, npages, dir) ==
  IF dir = VMMAP_DIR_LOHI THEN find_range_lohi(map, 1, UserLowPn, npages)
  ELSE find_range_hilo(map, Len(map), UserHighPn, npages)

RemoveAt(map, i) == SubSeq(map, 1, i - 1) \o SubSeq(map, i + 1, Len(map))

\* the list_iterate loop of vmmap_remove, at the area with index i; the
\* iteration holds the successor of the current area before running the body
RECURSIVE vmmap_remove_loop(_, _, _, _, _)
vmmap_remove_loop(os, map, i, lopage, highpage) ==
  IF i > Len(map) THEN [map |-> map, objs |-> os]
  ELSE LET vma == map[i] IN
    IF vma.vma_start < lopage
    THEN IF highpage < vma.vma_end
         THEN \* case 1
              LET new_vma == [vma EXCEPT !.vma_start = highpage]
                  os1 == ref(os, vma.vma_obj)
                  map1 == [map EXCEPT ![i].vma_end = lopage]
                  pos == vmmap_insert_pos(map1, new_vma)
              IN vmmap_remove_loop(os1, vmmap_insert(map1, new_vma),
                                   IF pos <= i + 1 THEN i + 2 ELSE i + 1,
                                   lopage, highpage)
         ELSE IF lopage < vma.vma_end
         THEN \* case 2
              vmmap_remove_loop(os, [map EXCEPT ![i].vma_end = lopage], i + 1,
                                lopage, highpage)
         ELSE vmmap_remove_loop(os, map, i + 1, lopage, highpage)
    ELSE IF vma.vma_start <= highpage /\ highpage < vma.vma_end
    THEN \* case 3
         vmmap_remove_loop(os,
           [map EXCEPT ![i].vma_off = U32(@ - (highpage - vma.vma_start)),
                       ![i].vma_start = highpage],
           i + 1, lopage, highpage)
    ELSE IF vma.vma_end <= highpage
    THEN \* case 4
         vmmap_remove_loop(put(os, vma.vma_obj), RemoveAt(map, i), i,
                           lopage, highpage)
    ELSE vmmap_remove_loop(os, map, i + 1, lopage, highpage)

\* a removal whose range ends one page early
vmmap_remove_short(os, map, lopage, npages) ==
  vmmap_remove_loop(os, map, 1, lopage, lopage + npages - 1)

vmmap_remove(os, map, lopage, npages) ==
  vmmap_remove_loop(os, map, 1, lopage, lopage + npages)

vmmap_is_range_empty(map, startvfn, npages) ==
  LET endvfn == startvfn + npages IN
  \A k \in 1 .. Len(map) :
    ~ \/ (startvfn <= map[k].vma_start /\ map[k].vma_start < endvfn)
      \/ (startvfn < map[k].vma_end /\ map[k].vma_end <= endvfn)
      \/ (map[k].vma_start <= startvfn /\ startvfn < map[k].vma_end)

\* the list_iterate loop of vmmap_destroy
RECURSIVE vmmap_destroy(_, _)
vmmap_destroy(os, map) ==
  IF map = << >> THEN os
  ELSE vmmap_destroy(put(os, Head(map).vma_obj), Tail(map))

\* the list_iterate loop of vmmap_clone: every area copied, its object ref'd
RECURSIVE vmmap_clone_refs(_, _, _)
vmmap_clone_refs(os, map, i) ==
  IF i > Len(map) THEN os
  ELSE vmmap_clone_refs(ref(os, map[i].vma_obj), map, i + 1)

vmmap_clone(os, map) == [map |-> map, objs |-> vmmap_clone_refs(os, map, 1)]

\* file->vn_ops->mmap: the zero device hands out a fresh anonymous object,
\* a regular file its vnode's object with a new reference
NoFile == "none"

zero_mmap(os) == anon_create(os)

s5fs_mmap(os) == [obj |-> FileObj, objs |-> ref(os, FileObj)]

vn_mmap(os, file) == IF file = "zero" THEN zero_mmap(os) ELSE s5fs_mmap(os)

\* vmmap_map, private file mapping: the shadow linked above the file's object
vmmap_map_link(sh, fo) ==
  [obj |-> sh.obj,
   ok |-> sh.obj # NULL /\ fo.obj # NULL,
   objs |-> IF sh.obj = NULL THEN fo.objs
            ELSE [fo.objs EXCEPT ![sh.obj].mmo_shadowed = fo.obj,
                                 ![sh.obj].mmo_bottom_obj = fo.obj]]

vmmap_map_shadow(sh, file) == vmmap_map_link(sh, vn_mmap(sh.objs, file))

vmmap_map_plain(c) == [obj |-> c.obj, ok |-> c.obj # NULL, objs |-> c.objs]

\* vmmap_map: the mmobj of the new area
vmmap_map_obj(os, file, flags) ==
  IF file # NoFile
  THEN IF And(flags, MAP_PRIVATE)
       THEN vmmap_map_shadow(shadow_create(os), file)
       ELSE vmmap_map_plain(vn_mmap(os, file))
  ELSE vmmap_map_plain(anon_create(os))

\* vmmap_map: the closing vmmap_insert
vmmap_map_insert(ok, rm, new_area) ==
  [status |-> 0, ok |-> ok, map |-> vmmap_insert(rm.map, new_area),
   objs |-> rm.objs, new |-> new_area]

\* vmmap_map: unmap what is found at lopage, then insert
vmmap_map_place(map, made, unmap, lo, npages, prot, flags, off) ==
  vmmap_map_insert(made.ok,
    IF unmap /\ vmmap_lookup(map, lo) # NULL
    THEN vmmap_remove(made.objs, map, lo, npages)
    ELSE [map |-> map, objs |-> made.objs],
    vmarea_alloc(lo, lo + npages, off, prot, flags, made.obj))

vmmap_map_at(os, map, file, lopage, found, npages, prot, flags, off) ==
  IF lopage = 0 /\ found = -1
  THEN [status |-> -ENOMEM, ok |-> TRUE, map |-> map, objs |-> os, new |-> NoArea]
  ELSE vmmap_map_place(map, vmmap_map_obj(os, file, flags), lopage # 0,
                       IF lopage = 0 THEN found ELSE lopage,
                       npages, prot, flags, off)

vmmap_map(os, map, file, lopage, npages, prot, flags, off, dir) ==
  vmmap_map_at(os, map, file, lopage, vmmap_find_range(map, npages, dir),
               npages, prot, flags, off)

(* --------------------------- page tables ------------------------------- *)
\* a page-table entry: the frame it maps and whether PD_WRITE is set
PD_PRESENT == {"PD_PRESENT"}
PD_WRITE == {"PD_WRITE"}
PD_USER == {"PD_USER"}

NoPte == [pf |-> NoFrame, write |-> FALSE, user |-> FALSE]

pt_create_pagedir == [pg \in UserPages |-> NoPte]

\* pt_unmap_range(pd, vlow, vhigh), byte addresses
pt_unmap_range(pd, vlow, vhigh) ==
  [pg \in DOMAIN pd |->
     IF vlow <= PN_TO_ADDR(pg) /\ PN_TO_ADDR(pg) < vhigh THEN NoPte ELSE pd[pg]]

\* pt_map(pd, vaddr, paddr, pdflags, ptflags): an entry without PD_PRESENT
\* maps nothing
pt_map(pd, pg, pf, flags) ==
  [pd EXCEPT ![pg] = [pf |-> IF And(flags, PD_PRESENT) THEN pf ELSE NoFrame,
                      write |-> And(flags, PD_WRITE),
                      user |-> And(flags, PD_USER)]]

(* ------------------- threads and the process tree --------------------- *)

PID_INIT == 1
ECHILD == 10

KT_NO_STATE == "KT_NO_STATE"
KT_RUN == "KT_RUN"
KT_SLEEP_CANCELLABLE == "KT_SLEEP_CANCELLABLE"
KT_SLEEP == "KT_SLEEP"
KT_EXITED == "KT_EXITED"

\* a saved register frame: the return register and the rest of the frame
NoRegs == [r_eax |-> 0, r_ebx |-> 0]

\* a thread slot: kt_wchan names the process whose p_wait the thread sleeps
\* on, wait the frame whose pf_waitq it sleeps on; pc, arg and found are the
\* thread's position and locals in the kernel
NoThread ==
  [kt_state |-> KT_NO_STATE, kt_wchan |-> NULL, kt_cancelled |-> FALSE,
   regs |-> NoRegs, kregs |-> NoRegs, pc |-> "none", arg |-> 0, found |-> FALSE,
   wait |-> NoFrame]

sched_make_runnable(thr) == [thr EXCEPT !.kt_state = KT_RUN]

\* every thread sleeping on the wait queue of process q becomes runnable
sched_broadcast_on(k, q) ==
  [t \in DOMAIN k |->
     IF k[t].kt_state \in {KT_SLEEP, KT_SLEEP_CANCELLABLE} /\ k[t].kt_wchan = q
     THEN [k[t] EXCEPT !.kt_state = KT_RUN, !.kt_wchan = NULL]
     ELSE k[t]]

\* every thread sleeping on the wait queue of frame f becomes runnable
sched_broadcast_on_pf(k, f) ==
  [t \in DOMAIN k |->
     IF k[t].kt_state = KT_SLEEP_CANCELLABLE /\ k[t].wait = f
     THEN [k[t] EXCEPT !.kt_state = KT_RUN]
     ELSE k[t]]

\* sched_cancel: the thread is marked cancelled; a cancellable sleep ends
sched_cancel(k, t) ==
  [k EXCEPT ![t].kt_cancelled = TRUE,
            ![t].kt_wchan = IF k[t].kt_state = KT_SLEEP_CANCELLABLE THEN NULL ELSE @,
            ![t].kt_state = IF @ = KT_SLEEP_CANCELLABLE THEN KT_RUN ELSE @]

\* kthread_cancel(kthr, retval) of a thread other than curthr: a sleeper is
\* handed to sched_cancel, for every other state the kernel panics
kthread_cancel(k, t) ==
  IF k[t].kt_state = KT_SLEEP \/ k[t].kt_state = KT_SLEEP_CANCELLABLE
  THEN [kt |-> sched_cancel(k, t), panic |-> FALSE]
  ELSE [kt |-> k, panic |-> TRUE]

kthread_create == [NoThread EXCEPT !.pc = "user"]

\* memcpy of the whole thread, then a fresh state
kthread_clone(thr) == [thr EXCEPT !.kt_state = KT_NO_STATE]

\* the register frame is copied onto the new kernel stack
fork_setup_stack(regs) == regs

do_fork_regs_kept(regs) == regs

\* regs->r_eax = 0
do_fork_regs(regs) == [regs EXCEPT !.r_eax = 0]

\* do_fork: clone the thread, zero the return register, set up the stack
\* of the child and make it runnable
do_fork_thread(thr) ==
  [parent |-> [thr EXCEPT !.regs = do_fork_regs(thr.regs)],
   child |-> sched_make_runnable(
               [kthread_clone(thr) EXCEPT
                  !.regs = do_fork_regs(thr.regs),
                  !.kregs = fork_setup_stack(do_fork_regs(thr.regs))])]

\* proc_create: the new process is a child of the current one
proc_create_pproc(pp, cur, c) == [pp EXCEPT ![c] = cur]

proc_create_children(ch, cur, c) == [ch EXCEPT ![cur] = Append(@, c), ![c] = << >>]

\* proc_cleanup: the children of an exiting process move to the tail of
\* the list of init; their p_pproc is not assigned
proc_cleanup_children(ch, p) ==
  IF p = PID_INIT THEN ch
  ELSE [ch EXCEPT ![PID_INIT] = @ \o ch[p], ![p] = << >>]

\* a do_waitpid that takes any child for the one asked for
do_waitpid_match_all(child, pid) == TRUE

\* do_waitpid: pid == -1 || (pid > 0 && child->p_pid == pid)
do_waitpid_match(child, pid) == pid = -1 \/ (pid > 0 /\ child = pid)

\* do_waitpid: is there a matching child on the list ch
do_waitpid_found(ch, pid) == \E i \in 1 .. Len(ch) : do_waitpid_match(ch[i], pid)

\* do_waitpid: the position on the list ch of the first matching child
\* that is PROC_DEAD, 0 when there is none
do_waitpid_find(ch, st, pid) ==
  IF \E i \in 1 .. Len(ch) : do_waitpid_match(ch[i], pid) /\ st[ch[i]] = "dead"
  THEN CHOOSE i \in 1 .. Len(ch) :
         /\ do_waitpid_match(ch[i], pid) /\ st[ch[i]] = "dead"
         /\ \A j \in 1 .. (i - 1) : ~(do_waitpid_match(ch[j], pid) /\ st[ch[j]] = "dead")
  ELSE 0

\* proc_cleanup: wake the parent; proc_thread_exited: the thread has exited
proc_thread_exited(k, pp, p) ==
  [sched_broadcast_on(k, pp[p]) EXCEPT ![p].kt_state = KT_EXITED, ![p].pc = "none"]

(* ------------------------ descriptor tables ---------------------------- *)
\* The open files: a regular file open for reading and writing, a directory
\* open for reading, a file open for appending.  Only the descriptor tables
\* and the reference counts are followed, not positions and contents.
OpenFiles == {"file", "dir", "wofile"}
FdSlots == 0 .. (NumFiles - 1)
S_ISDIR(file) == file = "dir"
AppendMode(file) == file = "wofile"

f_mode(file) ==
  CASE file = "rofile" -> FMODE_READ
    [] file = "dir" -> FMODE_READ
    [] file = "wofile" -> FMODE_WRITE
    [] OTHER -> FMODE_READ \cup FMODE_WRITE

\* the reference fget takes and fput gives back
fref(fr, file) == IF file = NoFile THEN fr ELSE [fr EXCEPT ![file] = @ + 1]
fput(fr, file) == IF file = NoFile THEN fr ELSE [fr EXCEPT ![file] = @ - 1]

\* fget(fd) of process p: the file of the slot, with one more reference
fget_file(t, p, fd) == IF fd \in FdSlots THEN t.p_files[p][fd] ELSE NoFile
fget_ref(t, p, fd) ==
  [t EXCEPT !.f_refcount = fref(@, fget_file(t, p, fd))]

\* fput(f)
fput_ref(t, f) == [t EXCEPT !.f_refcount = fput(@, f)]

\* get_empty_fd(p): the lowest free slot, -EMFILE when the table is full
get_empty_fd(t, p) ==
  IF \A fd \in FdSlots : t.p_files[p][fd] # NoFile THEN -EMFILE
  ELSE MinOf({fd \in FdSlots : t.p_files[p][fd] = NoFile})

Ret(t, op, ret) == [t EXCEPT !.op = op, !.ret = ret]

\* do_lseek(fd, offset, whence); valid: whence is one of the three and the
\* new position is not negative
do_lseek(t, p, fd, valid) ==
  IF fd = -1 THEN Ret(t, "lseek", -EBADF)
  ELSE IF fget_file(t, p, fd) = NoFile THEN Ret(t, "lseek", -EBADF)
  ELSE IF ~valid
  THEN Ret(fput_ref(fget_ref(t, p, fd), fget_file(t, p, fd)), "lseek", -EINVAL)
  ELSE Ret(fput_ref(fget_ref(t, p, fd), fget_file(t, p, fd)), "lseek", 0)

do_read(t, p, fd) ==
  LET f == fget_file(t, p, fd)
      t1 == fget_ref(t, p, fd)
  IN
  IF f = NoFile \/ ~And(f_mode(f), FMODE_READ)
  THEN Ret(IF f # NoFile THEN fput_ref(t1, f) ELSE t1, "read", -EBADF)
  ELSE IF S_ISDIR(f) THEN Ret(fput_ref(t1, f), "read", -EISDIR)
  ELSE Ret(fput_ref(t1, f), "read", 0)

do_write(t, p, fd) ==
  LET f == fget_file(t, p, fd)
      t1 == fget_ref(t, p, fd)
  IN
  IF f = NoFile \/ ~And(f_mode(f), FMODE_WRITE)
  THEN Ret(IF f # NoFile THEN fput_ref(t1, f) ELSE t1, "write", -EBADF)
  ELSE Ret(fput_ref(IF AppendMode(f) THEN do_lseek(t1, p, fd, TRUE) ELSE t1, f), "write", 0)

do_close(t, p, fd) ==
  IF fd < 0 \/ fd >= NumFiles THEN Ret(t, "close", -EBADF)
  ELSE IF t.p_files[p][fd] = NoFile THEN Ret(t, "close", -EBADF)
  ELSE Ret(fput_ref([t EXCEPT !.p_files[p][fd] = NoFile], t.p_files[p][fd]), "close", 0)

do_dup(t, p, fd) ==
  LET f == fget_file(t, p, fd)
      t1 == fget_ref(t, p, fd)
      new_fd == get_empty_fd(t1, p)
  IN
  IF fd = -1 THEN Ret(t, "dup", -EBADF)
  ELSE IF f = NoFile THEN Ret(t, "dup", -EBADF)
  ELSE IF new_fd = -EMFILE THEN Ret(fput_ref(t1, f), "dup", -EMFILE)
  ELSE Ret([t1 EXCEPT !.p_files[p][new_fd] = f], "dup", new_fd)

\* a do_dup2 that keeps the reference of fget when ofd = nfd
do_dup2_same_kept(t1, f, nfd) == Ret(t1, "dup2", nfd)

\* do_dup2 with ofd = nfd: fput(f); return nfd
do_dup2_same(t1, f, nfd) == Ret(fput_ref(t1, f), "dup2", nfd)

do_dup2(t, p, ofd, nfd) ==
  LET f == fget_file(t, p, ofd)
      t1 == fget_ref(t, p, ofd)
  IN
  IF ofd = -1 THEN Ret(t, "dup2", -EBADF)
  ELSE IF f = NoFile \/ nfd < 0 \/ nfd >= NumFiles
  THEN Ret(IF f # NoFile THEN fput_ref(t1, f) ELSE t1, "dup2", -EBADF)
  ELSE IF ofd = nfd THEN do_dup2_same(t1, f, nfd)
  ELSE Ret([(IF t1.p_files[p][nfd] # NoFile THEN do_close(t1, p, nfd) ELSE t1)
              EXCEPT !.p_files[p][nfd] = f], "dup2", nfd)

do_getdent(t, p, fd) ==
  LET f == fget_file(t, p, fd)
      t1 == fget_ref(t, p, fd)
  IN
  IF fd = -1 THEN Ret(t, "getdent", -EBADF)
  ELSE IF f = NoFile THEN Ret(t, "getdent", -EBADF)
  ELSE IF ~S_ISDIR(f) THEN Ret(fput_ref(t1, f), "getdent", -ENOTDIR)
  ELSE Ret(fput_ref(t1, f), "getdent", 0)

\* do_fork: memcpy of the parent's table and fref of every open slot
RECURSIVE do_fork_fref(_, _, _)
do_fork_fref(t, c, i) ==
  IF i >= NumFiles THEN t
  ELSE do_fork_fref([t EXCEPT !.f_refcount = fref(@, t.p_files[c][i])], c, i + 1)

do_fork_files(t, p, c) ==
  Ret(do_fork_fref([t EXCEPT !.p_files[c] = t.p_files[p], !.live[c] = TRUE], c, 0),
      "fork", c)

\* proc_cleanup: do_close of every open slot
RECURSIVE proc_cleanup_close(_, _, _)
proc_cleanup_close(t, p, i) ==
  IF i >= NumFiles THEN t
  ELSE proc_cleanup_close(
         IF t.p_files[p][i] # NoFile THEN do_close(t, p, i) ELSE t, p, i + 1)

proc_cleanup_files(t, p) ==
  Ret([proc_cleanup_close(t, p, 0) EXCEPT !.live[p] = FALSE], "exit", 0)

\* the first process holds the regular file, the directory and the file
\* open for appending
FdInit ==
  [p_files |-> [p \in Procs |-> [fd \in FdSlots |->
      IF p # 1 THEN NoFile
      ELSE IF fd = 0 THEN "file" ELSE IF fd = 1 THEN "dir"
      ELSE IF fd = 2 THEN "wofile" ELSE NoFile]],
   f_refcount |-> [f \in OpenFiles |-> 1],
   live |-> [p \in Procs |-> p = 1],
   op |-> "init", ret |-> 0]

(* ------------------------ line discipline ------------------------------ *)
\* Characters: an ordinary one, newline, backspace and CTRL-D; "nul" is the
\* zero byte.  Indices are TTY_BUF_SIZE_T values and wrap at TtyIndexMod.
Chars == {"a", "nl", "bs", "eof"}
TtyIndices == 0 .. (TtyIndexMod - 1)
Wrap8(x) == x % TtyIndexMod

\* one access of inbuf at index i: the highest index used is remembered
Touch(nt, i) == [nt EXCEPT !.hi = IF i > @ THEN i ELSE @]

\* n_tty_attach: inbuf = kmalloc(sizeof(TTY_BUF_SIZE_T)), all indices zero.
\* The cells beyond the allocation are followed as if they belonged to
\* inbuf, which is what the accesses through inbuf + index do to them.
n_tty_attach ==
  [inbuf |-> [i \in TtyIndices |-> "nul"],
   alloc |-> TtyIndexBytes,
   rhead |-> 0, rawtail |-> 0, ckdtail |-> 0,
   hi |-> -1, op |-> "attach", c |-> "nul", n |-> 0, ret |-> 0]

\* a full test in the index type: rawtail + 1, wrapped, against rhead
n_tty_full_wrapped(nt) == Wrap8(nt.rawtail + 1) = nt.rhead

\* the full test of n_tty_receive_char: rawtail + 1 is computed as an int
\* and is not wrapped
n_tty_full(nt) == nt.rawtail + 1 = nt.rhead

n_tty_receive_char(nt, c) ==
  IF c = "bs"
  THEN IF nt.rawtail # nt.ckdtail
       THEN Touch([nt EXCEPT !.rawtail = Wrap8(@ - 1),
                             !.inbuf[Wrap8(nt.rawtail - 1)] = "nul"],
                  Wrap8(nt.rawtail - 1))
       ELSE nt
  ELSE IF ~n_tty_full(nt)
  THEN Touch([nt EXCEPT !.inbuf[nt.rawtail] = c,
                        !.rawtail = Wrap8(@ + 1),
                        !.ckdtail = IF c = "nl" THEN Wrap8(nt.rawtail + 1) ELSE @],
             nt.rawtail)
  ELSE nt

\* n characters c in a row, the first half and then the rest
RECURSIVE n_tty_receive_burst(_, _, _)
n_tty_receive_burst(nt, c, n) ==
  IF n = 0 THEN nt
  ELSE IF n = 1 THEN n_tty_receive_char(nt, c)
  ELSE LET half == n_tty_receive_burst(nt, c, n \div 2)
       IN IF half.rawtail \in TtyIndices   \* the first half is received first
          THEN n_tty_receive_burst(half, c, n - (n \div 2))
          ELSE half

\* n_tty_read, its loop in closed form: bytes are copied from rhead on until
\* len bytes were copied, ckdtail is reached, or a newline or CTRL-D was
\* copied; rhead ends behind the last byte copied
Cooked(nt) == Wrap8(nt.ckdtail - nt.rhead)
EndsLine(nt, j) == nt.inbuf[Wrap8(nt.rhead + j)] \in {"nl", "eof"}
n_tty_read_count(nt, len) ==
  MinOf({len, Cooked(nt)}
        \cup {j + 1 : j \in {k \in 0 .. (Cooked(nt) - 1) : EndsLine(nt, k)}})
n_tty_read_apply(nt, read) ==
  [nt EXCEPT !.rhead = Wrap8(@ + read),
             !.ret = read,
             !.hi = MaxOf({@} \cup {Wrap8(nt.rhead + j) : j \in 0 .. (read - 1)})]
n_tty_read(nt, len) == n_tty_read_apply(nt, n_tty_read_count(nt, len))

(* ------------------------ the process table ---------------------------- *)
\* proc structures are slots; a slot is free, or holds a process that runs
\* (PROC_RUNNING) or has exited and waits to be reaped (PROC_DEAD).
\* _proc_list is the set of slots linked into it: _proc_getid only asks
\* whether some member has a given PID.
ProcSlots == 1 .. MaxProcSlots
PID_IDLE == 0
NoSlot == NULL

PidTaken(t, pid) == \E q \in t.proc_list : t.proc[q].p_pid = pid

\* the scan of _proc_getid from pid on: the first PID after it that no
\* member of _proc_list has, -1 when the scan comes back to next_pid
RECURSIVE _proc_getid_scan(_, _)
_proc_getid_scan(t, pid) ==
  IF PidTaken(t, pid)
  THEN IF (pid + 1) % ProcMaxCount = t.next_pid THEN -1
       ELSE _proc_getid_scan(t, (pid + 1) % ProcMaxCount)
  ELSE pid

_proc_getid(t) == _proc_getid_scan(t, t.next_pid)

\* proc_create by the process in slot cur (NoSlot: no current process yet)
\* into the free slot s: KASSERT(p_pid >= 0) halts the kernel when no PID
\* is left
proc_create_pid(t, cur, s) ==
  LET pid == _proc_getid(t) IN
  IF pid < 0 THEN [t EXCEPT !.halted = TRUE, !.op = "proc_create"]
  ELSE [t EXCEPT !.next_pid = (pid + 1) % ProcMaxCount,
                 !.proc[s] = [p_pid |-> pid, p_state |-> "running", p_pproc |-> cur],
                 !.proc_list = @ \cup {s},
                 !.op = "proc_create"]

\* proc_cleanup: list_remove(&curproc->p_list_link)
proc_cleanup_list(list, s) == list \ {s}

\* the exit of the process in slot s: its children go to init, it leaves
\* _proc_list and becomes PROC_DEAD
InitSlot(t) == CHOOSE q \in ProcSlots : t.proc[q].p_state # "free" /\ t.proc[q].p_pid = PID_INIT
proc_cleanup_pid(t, s) ==
  [t EXCEPT !.proc = [q \in ProcSlots |->
                        IF q = s THEN [@[q] EXCEPT !.p_state = "dead"]
                        ELSE IF @[q].p_state # "free" /\ @[q].p_pproc = s
                        THEN [@[q] EXCEPT !.p_pproc = InitSlot(t)]
                        ELSE @[q]],
            !.proc_list = proc_cleanup_list(@, s),
            !.op = "exit"]

FreeProc == [p_pid |-> -1, p_state |-> "free", p_pproc |-> NoSlot]

\* do_waitpid of the process in slot cur reaping its dead child in slot s
do_waitpid_pid(t, cur, s) ==
  [t EXCEPT !.proc[s] = FreeProc, !.op = "waitpid"]

\* after the boot: the idle process and init, its child
PtBoot ==
  [proc |-> [q \in ProcSlots |-> FreeProc],
   proc_list |-> {},
   next_pid |-> 0,
   halted |-> FALSE,
   op |-> "boot"]
PtInit == proc_create_pid(proc_create_pid(PtBoot, NoSlot, 1), 1, 2)

(* ------------------------ allocation of vmmaps ------------------------ *)
\* proc_create: new_proc->p_vmmap = vmmap_create()
proc_create_vmmaps(n) == n + 1

\* do_fork: proc_create, then new_proc->p_vmmap = vmmap_clone(...), whose
\* vmmap_create allocates the map that replaces the one of proc_create
do_fork_vmmaps(n) == proc_create_vmmaps(n) + 1

\* vmmap_destroy: slab_obj_free(vmmap_allocator, map)
vmmap_destroy_vmmaps(n) == n - 1

(* ----------------- the vmarea lists of the bottom objects ------------- *)
\* Every non-shadow mmobj heads the list mmo_vmas of the vmareas it is the
\* bottom object of; a vmarea is on it through its link vma_olink.  The
\* lists are modelled pointer by pointer.  A link is named by a number: the
\* vma_olink of the vmarea in slot a by a, the head of bottom object b by
\* MaxAreas + b.  Bottom object 1 is the mmobj of the regular file, the
\* others are anonymous objects.  Reference counts are left to objs.
AreaSlots == 1 .. MaxAreas
Bottoms == 1 .. MaxBottoms
FileBottom == FileObj
HeadOf(b) == MaxAreas + b
Links == 1 .. (MaxAreas + MaxBottoms)
NullLink == [l_next |-> NULL, l_prev |-> NULL]

list_init(L, h) == [L EXCEPT ![h] = [l_next |-> h, l_prev |-> h]]
list_link_init(L, n) == [L EXCEPT ![n] = NullLink]
list_link_is_linked(L, n) == L[n].l_next # NULL

list_insert_tail(L, h, n) ==
  LET prev == L[h].l_prev
      L1 == [L EXCEPT ![n] = [l_next |-> h, l_prev |-> prev]]
      L2 == [L1 EXCEPT ![prev].l_next = n]
  IN [L2 EXCEPT ![h].l_prev = n]

\* link->l_prev->l_next = link->l_next; link->l_next->l_prev = link->l_prev;
\* link->l_next = link->l_prev = NULL.  The neighbours are whatever the
\* link's two pointers name, on the list or not.
list_remove(L, n) ==
  LET L1 == [L EXCEPT ![L[n].l_prev].l_next = L[n].l_next]
      L2 == [L1 EXCEPT ![L1[n].l_next].l_prev = L1[n].l_prev]
  IN [L2 EXCEPT ![n] = NullLink]

\* a vmarea slot; bottom is mmobj_bottom_obj(vma_obj)
NoVma ==
  [used |-> FALSE, proc |-> NULL, vma_start |-> NULL, vma_end |-> NULL,
   vma_flags |-> {}, bottom |-> NULL]

\* the slab allocator hands out the lowest free slot
FreeAreas(s) == {a \in AreaSlots : ~s.vma[a].used}
vmarea_slot(s) == MinOf(FreeAreas(s))

\* the areas of process p in list order, as vmmap_lookup and vmmap_insert
\* see them
AreasOfMap(s, p) == [i \in 1 .. Len(s.map[p]) |-> s.vma[s.map[p][i]]]

InsertAt(seq, pos, a) == SubSeq(seq, 1, pos - 1) \o <<a>> \o SubSeq(seq, pos, Len(seq))

\* vmmap_remove, link by link: the list_iterate loop at list position i
RECURSIVE vmmap_remove_olink_loop(_, _, _, _, _)
vmmap_remove_olink_loop(s, p, i, lopage, highpage) ==
  IF i > Len(s.map[p]) THEN s
  ELSE LET a == s.map[p][i]
           vma == s.vma[a]
       IN
    IF vma.vma_start < lopage
    THEN IF highpage < vma.vma_end
         THEN \* case 1: memcpy(new_vma, vma, sizeof(vmarea_t)) copies vma_olink
              LET new_vma == vmarea_slot(s)
                  s1 == [s EXCEPT !.vma[new_vma] = [vma EXCEPT !.vma_start = highpage],
                                  !.link[new_vma] = s.link[a],
                                  !.vma[a].vma_end = lopage]
                  pos == vmmap_insert_pos(AreasOfMap(s1, p), s1.vma[new_vma])
              IN vmmap_remove_olink_loop(
                   [s1 EXCEPT !.map[p] = InsertAt(@, pos, new_vma)], p,
                   IF pos <= i + 1 THEN i + 2 ELSE i + 1, lopage, highpage)
         ELSE IF lopage < vma.vma_end
         THEN \* case 2
              vmmap_remove_olink_loop([s EXCEPT !.vma[a].vma_end = lopage], p, i + 1,
                                      lopage, highpage)
         ELSE vmmap_remove_olink_loop(s, p, i + 1, lopage, highpage)
    ELSE IF vma.vma_start <= highpage /\ highpage < vma.vma_end
    THEN \* case 3
         vmmap_remove_olink_loop([s EXCEPT !.vma[a].vma_start = highpage], p, i + 1,
                                 lopage, highpage)
    ELSE IF vma.vma_end <= highpage
    THEN \* case 4: list_remove(&vma->vma_olink); vmarea_free(vma)
         vmmap_remove_olink_loop(
           [s EXCEPT !.link = list_remove(@, a), !.vma[a] = NoVma,
                     !.map[p] = RemoveAt(@, i)],
           p, i, lopage, highpage)
    ELSE vmmap_remove_olink_loop(s, p, i + 1, lopage, highpage)

vmmap_remove_olink(s, p, lopage, npages) ==
  vmmap_remove_olink_loop(s, p, 1, lopage, lopage + npages)

\* the areas a removal of [lopage, highpage) splits: each takes a new slot
SplitBy(s, p, lopage, highpage) ==
  {i \in 1 .. Len(s.map[p]) :
     s.vma[s.map[p][i]].vma_start < lopage /\ highpage < s.vma[s.map[p][i]].vma_end}

\* vmmap_map once lopage is known: the new area is put on the list of its
\* bottom object b, the range is cleared, the area is inserted in the map
vmmap_map_olink(s, p, b, lopage, npages, flags) ==
  LET new_area == vmarea_slot(s)
      s1 == [s EXCEPT !.vma[new_area] =
                          [used |-> TRUE, proc |-> p, vma_start |-> lopage,
                           vma_end |-> lopage + npages, vma_flags |-> flags,
                           bottom |-> b],
                      !.link = list_insert_tail(list_link_init(@, new_area),
                                                HeadOf(b), new_area),
                      !.anon = IF b = FileBottom THEN @ ELSE @ + 1]
      s2 == IF vmmap_lookup(AreasOfMap(s1, p), lopage) # NULL
            THEN vmmap_remove_olink(s1, p, lopage, npages)
            ELSE s1
  IN [s2 EXCEPT !.map[p] =
        InsertAt(@, vmmap_insert_pos(AreasOfMap(s2, p), s2.vma[new_area]), new_area)]

\* vmmap_clone of the map of p for the new process c, then the loop of
\* do_fork over both maps, at list position i: the clone is a memcpy of the
\* parent's area, vma_olink included; do_fork puts the clone of a private
\* area on the list of the bottom object and leaves the clone of a shared
\* area as it is
RECURSIVE do_fork_olink_loop(_, _, _, _)
do_fork_olink_loop(s, p, c, i) ==
  IF i > Len(s.map[p]) THEN s
  ELSE LET vma == s.map[p][i]
           vma2 == vmarea_slot(s)
           s1 == [s EXCEPT !.vma[vma2] = [s.vma[vma] EXCEPT !.proc = c],
                           !.link[vma2] = s.link[vma],
                           !.map[c] = Append(@, vma2)]
       IN do_fork_olink_loop(
            IF And(s1.vma[vma].vma_flags, MAP_PRIVATE)
            THEN [s1 EXCEPT !.link = list_insert_tail(@, HeadOf(s1.vma[vma].bottom), vma2)]
            ELSE s1,
            p, c, i + 1)

do_fork_olink(s, p, c) ==
  do_fork_olink_loop([s EXCEPT !.live[c] = TRUE, !.map[c] = << >>], p, c, 1)

\* vmmap_destroy: list_remove(&vma->vma_olink) and vmarea_free of every area
RECURSIVE vmmap_destroy_olink(_, _)
vmmap_destroy_olink(s, p) ==
  IF s.map[p] = << >> THEN [s EXCEPT !.live[p] = FALSE]
  ELSE vmmap_destroy_olink(
         [s EXCEPT !.link = list_remove(@, Head(s.map[p])),
                   !.vma[Head(s.map[p])] = NoVma,
                   !.map[p] = Tail(@)], p)

\* the first process: its private anonymous page is the only vmarea, on the
\* list of the first anonymous object
LkInit ==
  [vma |-> [a \in AreaSlots |->
              IF a = 1
              THEN [used |-> TRUE, proc |-> 1, vma_start |-> UserLowPn,
                    vma_end |-> UserLowPn + 1, vma_flags |-> MAP_PRIVATE \cup MAP_ANON,
                    bottom |-> FileBottom + 1]
              ELSE NoVma],
   link |-> [n \in Links |->
              IF n = 1 THEN [l_next |-> HeadOf(FileBottom + 1), l_prev |-> HeadOf(FileBottom + 1)]
              ELSE IF n = HeadOf(FileBottom + 1) THEN [l_next |-> 1, l_prev |-> 1]
              ELSE IF n > MaxAreas THEN [l_next |-> n, l_prev |-> n]
              ELSE NullLink],
   map |-> [p \in Procs |-> IF p = 1 THEN <<1>> ELSE << >>],
   live |-> [p \in Procs |-> p = 1],
   anon |-> 1]

(* ------------------------------ state ---------------------------------- *)
VARIABLES
  objs,          \* the mmobj slots
  p_state,       \* per process slot: "free", "running" or "dead"
  p_status,      \* exit status
  p_vmmap,       \* per process: the vmmap
  p_pagedir,     \* per process: user page-table entries
  p_brk,         \* per process: the break
  p_start_brk,   \* per process: the initial break
  f_refcount,    \* per open file: its reference count
  p_pproc,       \* per process: the parent pointer
  p_children,    \* per process: the list of children
  kt,            \* per process: its thread
  pf_busy,       \* the resident frames whose busy flag is raised
  lk,            \* the vmareas and the vmarea lists of the bottom objects, link by link
  vmmaps,        \* number of vmmap structures allocated and not freed
  ftab,          \* the descriptor tables and the reference counts of the open files
  ntty,          \* the line discipline of the terminal
  pt,            \* the process table: proc structures, _proc_list, next_pid
  last,          \* the operation that led to this state
  steps,         \* number of operations performed so far
  stack          \* call frames of an exit that is run statement by statement

vars ==
  <<objs, p_state, p_status, p_vmmap, p_pagedir, p_brk, p_start_brk, f_refcount,
    p_pproc, p_children, kt, pf_busy, lk, vmmaps, ftab, ntty, pt, last, steps, stack>>

procvars == <<p_pproc, p_children, kt, pf_busy>>

\* the state of the address spaces, processes and threads
corevars ==
  <<objs, p_state, p_status, p_vmmap, p_pagedir, p_brk, p_start_brk, f_refcount,
    p_pproc, p_children, kt, pf_busy, last>>

\* the state that the specifications of single subsystems run on: each
\* part is followed by the specification of its subsystem and stands still
\* under the others
extvars == <<lk, vmmaps, ftab, ntty, pt>>
lkrest == <<vmmaps, ftab, ntty, pt>>
vmrest == <<lk, ftab, ntty, pt>>
fdrest == <<lk, vmmaps, ntty, pt>>
ttyrest == <<lk, vmmaps, ftab, pt>>
pidrest == <<lk, vmmaps, ftab, ntty>>

\* args holds what else a property needs to know of the call: for mmap its
\* arguments, for munmap what the range held when it was called
NoArgs == [none |-> TRUE]
Op(op, proc, a, b, ret) ==
  [op |-> op, proc |-> proc, a |-> a, b |-> b, ret |-> ret, args |-> NoArgs]
OpArgs(op, proc, a, b, ret, args) ==
  [op |-> op, proc |-> proc, a |-> a, b |-> b, ret |-> ret, args |-> args]

\* the descriptors every process holds: the regular file opened read/write,
\* read-only and write-only, and the zero device
Fds == {"file", "rofile", "wofile", "zero"}

Running(p) == p_state[p] = "running" /\ kt[p].kt_state = KT_RUN /\ kt[p].pc = "user"

\* the first user process after its image is loaded: one private anonymous
\* data/bss page at the bottom of the user range, the break right above it
InitObj == FileObj + 1

Init ==
  /\ objs = [o \in Objs |->
       IF o = FileObj THEN [FreeObj EXCEPT !.kind = "file", !.mmo_refcount = 1]
       ELSE IF o = InitObj THEN [FreeObj EXCEPT !.kind = "anon", !.mmo_refcount = 1]
       ELSE FreeObj]
  /\ p_state = [p \in Procs |-> IF p = 1 THEN "running" ELSE "free"]
  /\ p_status = [p \in Procs |-> 0]
  /\ p_vmmap = [p \in Procs |->
       IF p = 1
       THEN <<vmarea_alloc(UserLowPn, UserLowPn + 1, 0, PROT_READ \cup PROT_WRITE,
                           MAP_PRIVATE \cup MAP_ANON, InitObj)>>
       ELSE vmmap_create]
  /\ p_pagedir = [p \in Procs |-> pt_create_pagedir]
  /\ p_brk = [p \in Procs |-> IF p = 1 THEN PN_TO_ADDR(UserLowPn + 1) ELSE 0]
  /\ p_start_brk = [p \in Procs |-> IF p = 1 THEN PN_TO_ADDR(UserLowPn + 1) ELSE 0]
  /\ f_refcount = [fd \in Fds |-> 1]
  /\ p_pproc = [p \in Procs |-> NULL]
  /\ p_children = [p \in Procs |-> << >>]
  /\ pf_busy = {}
  /\ lk = LkInit
  /\ vmmaps = proc_create_vmmaps(0)
  /\ ftab = FdInit
  /\ ntty = n_tty_attach
  /\ pt = PtInit
  /\ kt = [p \in Procs |->
       IF p = PID_INIT THEN sched_make_runnable(kthread_create) ELSE NoThread]
  /\ last = Op("init", 0, 0, 0, 0)
  /\ steps = 0
  /\ stack = << >>

(* --------------------------- system calls ------------------------------ *)
\* fget(fd): the open file of a descriptor, NoFile for a bad descriptor
fget(fd) == IF fd \in Fds THEN fd ELSE NoFile

\* a do_mmap that never refuses a file for its access mode
do_mmap_denied_never(mode, prot, flags) == FALSE

\* do_mmap: the access mode of the file does not allow the mapping
do_mmap_denied(mode, prot, flags) ==
  \/ ~And(mode, FMODE_READ)
  \/ (And(flags, MAP_SHARED) /\ And(prot, PROT_WRITE) /\ ~And(mode, FMODE_WRITE))
  \/ (And(prot, PROT_WRITE) /\ mode = FMODE_APPEND)

\* do_mmap after vmmap_map returned r: unmap the new area's range, fput, return
do_mmap_flush(pd, fr, file, r) ==
  IF r.status # 0
  THEN [status |-> r.status, ok |-> r.ok, map |-> r.map, objs |-> r.objs,
        pd |-> pd, f_refcount |-> fput(fref(fr, file), file), ret |-> 0]
  ELSE [status |-> 0, ok |-> r.ok, map |-> r.map, objs |-> r.objs,
        pd |-> pt_unmap_range(pd, PN_TO_ADDR(r.new.vma_start),
                              PN_TO_ADDR(r.new.vma_end)),
        f_refcount |-> fput(fref(fr, file), file),
        ret |-> PN_TO_ADDR(r.new.vma_start)]

do_mmap(os, map, pd, fr, addr, len, prot, flags, fd, off) ==
  LET fail(e, fr1) == [status |-> -e, ok |-> TRUE, map |-> map, objs |-> os,
                       pd |-> pd, f_refcount |-> fr1, ret |-> 0]
      file == IF And(flags, MAP_ANON) THEN NoFile ELSE fget(fd)
  IN
  IF ~PAGE_ALIGNED(addr) \/ ~PAGE_ALIGNED(off) \/ len = 0 THEN fail(EINVAL, fr)
  ELSE IF And(flags, MAP_FIXED) /\ (addr < USER_MEM_LOW \/ addr >= USER_MEM_HIGH)
  THEN fail(EINVAL, fr)
  ELSE IF (And(flags, MAP_PRIVATE) /\ And(flags, MAP_SHARED))
          \/ (~And(flags, MAP_PRIVATE) /\ ~And(flags, MAP_SHARED))
  THEN fail(EINVAL, fr)
  ELSE IF ~And(flags, MAP_ANON) /\ file = NoFile THEN fail(EBADF, fr)
  ELSE IF ~And(flags, MAP_ANON) /\ do_mmap_denied(f_mode(file), prot, flags)
  THEN fail(EACCES, fput(fref(fr, file), file))
  ELSE
    do_mmap_flush(pd, fr, file,
      vmmap_map(os, map, file,
                ADDR_TO_PN(addr), (len - 1) \div PAGE_SIZE + 1,
                prot, flags, off, VMMAP_DIR_HILO))

\* a do_munmap that leaves the page-table entries of the range in place
do_munmap_flush_kept(pd, r, lopage, npages) ==
  [status |-> 0, map |-> r.map, objs |-> r.objs, pd |-> pd]

\* do_munmap after vmmap_remove returned r
do_munmap_flush(pd, r, lopage, npages) ==
  [status |-> 0, map |-> r.map, objs |-> r.objs,
   pd |-> pt_unmap_range(pd, lopage * PAGE_SIZE, (lopage + npages) * PAGE_SIZE)]

do_munmap(os, map, pd, addr, len) ==
  LET fail(e) == [status |-> -e, map |-> map, objs |-> os, pd |-> pd]
      lopage == addr \div PAGE_SIZE
      npages == (len - 1) \div PAGE_SIZE + 1
  IN
  IF ~PAGE_ALIGNED(addr) \/ len = 0 THEN fail(EINVAL)
  ELSE IF addr < USER_MEM_LOW \/ addr >= USER_MEM_HIGH THEN fail(EINVAL)
  ELSE IF lopage + npages > UserHighPn THEN fail(EINVAL)
  ELSE do_munmap_flush(pd, vmmap_remove(os, map, lopage, npages), lopage, npages)

\* do_brk for addr # NULL; asserted is the KASSERT(vma)
do_brk(map, pd, brk, start_brk, addr) ==
  LET fail(e) == [status |-> -e, asserted |-> TRUE, map |-> map, pd |-> pd,
                  brk |-> brk, ret |-> 0]
      curpage == ADDR_TO_PN(brk)
      vma == vmmap_lookup(map, curpage - 1)
      newpage == ADDR_TO_PN(PAGE_ALIGN_UP(addr))
  IN
  IF addr = NULL
  THEN [status |-> 0, asserted |-> TRUE, map |-> map, pd |-> pd, brk |-> brk, ret |-> brk]
  ELSE IF addr < start_brk THEN fail(ENOMEM)
  ELSE IF vma = NULL
  THEN [status |-> 0, asserted |-> FALSE, map |-> map, pd |-> pd, brk |-> brk, ret |-> 0]
  ELSE IF newpage > USER_MEM_HIGH THEN fail(ENOMEM)
  ELSE IF vmmap_lookup(map, newpage - 1) # NULL THEN fail(ENOMEM)
  ELSE [status |-> 0, asserted |-> TRUE,
        map |-> [map EXCEPT ![vma].vma_end = newpage],
        pd |-> IF newpage < map[vma].vma_end
               THEN pt_unmap_range(pd, PN_TO_ADDR(newpage), PN_TO_ADDR(map[vma].vma_end))
               ELSE pd,
        brk |-> PN_TO_ADDR(newpage), ret |-> PN_TO_ADDR(newpage)]

\* a fork that takes the area's old object for the bottom of the new shadows
do_fork_link_top(os, shadow, shadow2, bottom, obj) ==
  [os EXCEPT ![shadow].mmo_bottom_obj = obj,
             ![shadow2].mmo_bottom_obj = obj,
             ![shadow].mmo_shadowed = obj,
             ![shadow2].mmo_shadowed = obj]

\* do_fork: both shadows point at the area's old object and at its bottom
do_fork_link(os, shadow, shadow2, bottom, obj) ==
  [os EXCEPT ![shadow].mmo_bottom_obj = bottom,
             ![shadow2].mmo_bottom_obj = bottom,
             ![shadow].mmo_shadowed = obj,
             ![shadow2].mmo_shadowed = obj]

\* the lockstep loop of do_fork over the parent's and the child's areas
RECURSIVE do_fork_loop(_, _, _, _)
do_fork_loop(os, map, map2, i) ==
  IF i > Len(map) \/ i > Len(map2) THEN [objs |-> os, map |-> map, map2 |-> map2, ok |-> TRUE]
  ELSE IF And(map[i].vma_flags, MAP_PRIVATE)
  THEN LET s1 == shadow_create(os).obj
           s2 == shadow_create(shadow_create(os).objs).obj
       IN IF s1 = NULL \/ s2 = NULL
          THEN [objs |-> os, map |-> map, map2 |-> map2, ok |-> FALSE]
          ELSE do_fork_loop(
                 do_fork_link(shadow_create(shadow_create(os).objs).objs, s1, s2,
                              mmobj_bottom_obj(os, map[i].vma_obj), map[i].vma_obj),
                 [map EXCEPT ![i].vma_obj = s1],
                 [map2 EXCEPT ![i].vma_obj = s2], i + 1)
  ELSE do_fork_loop(os, map, map2, i + 1)

\* a fork that leaves the parent's page-table entries in place
do_fork_flush_kept(pd, r) ==
  [objs |-> r.objs, map |-> r.map, map2 |-> r.map2, ok |-> r.ok, pd |-> pd]

\* do_fork after the shadow objects are set up: unmap the parent's user pages
do_fork_flush(pd, r) ==
  [objs |-> r.objs, map |-> r.map, map2 |-> r.map2, ok |-> r.ok,
   pd |-> pt_unmap_range(pd, USER_MEM_LOW, USER_MEM_HIGH)]

do_fork_shadows(map, c) == do_fork_loop(c.objs, map, c.map, 1)

do_fork(os, map, pd) == do_fork_flush(pd, do_fork_shadows(map, vmmap_clone(os, map)))

\* handle_pagefault after pframe_lookup returned r: the pt_map
handle_pagefault_map_write(pd, pn, forwrite, r) ==
  [kill |-> 0, objs |-> r.objs,
   pd |-> pt_map(pd, pn, r.pf, PD_PRESENT \cup PD_USER \cup PD_WRITE)]

handle_pagefault_map(pd, pn, forwrite, r) ==
  [kill |-> 0, objs |-> r.objs,
   pd |-> pt_map(pd, pn, r.pf,
                 PD_PRESENT \cup PD_USER \cup (IF forwrite THEN PD_WRITE ELSE {}))]

\* handle_pagefault: kill is the exit status of proc_kill, 0 when it returns
handle_pagefault(os, map, pd, vaddr, cause) ==
  LET pn == ADDR_TO_PN(vaddr)
      vma == vmmap_lookup(map, pn)
  IN
  IF vma = NULL THEN [kill |-> EFAULT, objs |-> os, pd |-> pd]
  ELSE IF \/ (And(cause, FAULT_WRITE) /\ ~And(PROT_WRITE, map[vma].vma_prot))
          \/ (And(cause, FAULT_EXEC) /\ ~And(PROT_EXEC, map[vma].vma_prot))
          \/ And(PROT_NONE, map[vma].vma_prot)
  THEN [kill |-> EFAULT, objs |-> os, pd |-> pd]
  ELSE handle_pagefault_map(pd, pn, And(cause, FAULT_WRITE),
         pframe_lookup(os, map[vma].vma_obj,
                       U32(pn - map[vma].vma_start + map[vma].vma_off),
                       And(cause, FAULT_WRITE)))

\* vmmap_iop for one page: the frame the access goes to
vmmap_iop(os, map, vaddr, write) ==
  LET pagenum == ADDR_TO_PN(vaddr)
      vma == vmmap_lookup(map, pagenum)
  IN pframe_lookup(os, map[vma].vma_obj,
                   U32(pagenum - map[vma].vma_start + map[vma].vma_off), write)

(* ------------------------------ actions -------------------------------- *)
\* proc_cleanup: do_close of every descriptor
do_close_all(fr) == [fd \in DOMAIN fr |-> fr[fd] - 1]

\* proc_kill(curproc, status) / do_exit(status): the thread exits and
\* proc_cleanup destroys the vmmap; the page directory is never walked again
ExitEffect(p, os, status) ==
  /\ p = PID_INIT => p_children[p] = << >>
  /\ p_children' = proc_cleanup_children(p_children, p)
  /\ kt' = proc_thread_exited(kt, p_pproc, p)
  /\ UNCHANGED <<p_pproc, pf_busy>>
  /\ objs' = vmmap_destroy(os, p_vmmap[p])
  /\ p_vmmap' = [p_vmmap EXCEPT ![p] = vmmap_create]
  /\ p_pagedir' = [p_pagedir EXCEPT ![p] = pt_create_pagedir]
  /\ p_state' = [p_state EXCEPT ![p] = "dead"]
  /\ p_status' = [p_status EXCEPT ![p] = status]
  /\ f_refcount' = do_close_all(f_refcount)
  /\ UNCHANGED <<p_brk, p_start_brk>>

MmapArgs(addr, len, prot, flags, fd, off) ==
  [addr |-> addr, len |-> len, prot |-> prot, flags |-> flags, fd |-> fd, off |-> off]

MmapApply(p, r, npages, args) ==
  /\ r.ok
  /\ objs' = r.objs
  /\ p_vmmap' = [p_vmmap EXCEPT ![p] = r.map]
  /\ p_pagedir' = [p_pagedir EXCEPT ![p] = r.pd]
  /\ f_refcount' = r.f_refcount
  /\ UNCHANGED procvars
  /\ last' = OpArgs("mmap", p, ADDR_TO_PN(r.ret), npages, r.status, args)
  /\ UNCHANGED <<p_state, p_status, p_brk, p_start_brk>>

Mmap(p, addr, len, prot, flags, fd, off) ==
  /\ Running(p)
  /\ MmapApply(p, do_mmap(objs, p_vmmap[p], p_pagedir[p], f_refcount,
                          addr, len, prot, flags, fd, off),
               (len - 1) \div PAGE_SIZE + 1,
               MmapArgs(addr, len, prot, flags, fd, off))

MunmapApply(p, r, lopage, npages, args) ==
  /\ objs' = r.objs
  /\ p_vmmap' = [p_vmmap EXCEPT ![p] = r.map]
  /\ p_pagedir' = [p_pagedir EXCEPT ![p] = r.pd]
  /\ last' = OpArgs("munmap", p, lopage, npages, r.status, args)
  /\ UNCHANGED <<p_state, p_status, p_brk, p_start_brk, f_refcount, procvars>>

\* what the pages lopage .. lopage+npages-1 hold when munmap is called: the
\* areas that reach into them and the pages that have a page-table entry
MunmapArgs(p, lopage, npages) ==
  [hit |-> {<<p_vmmap[p][k].vma_start, p_vmmap[p][k].vma_end>> :
              k \in {j \in 1 .. Len(p_vmmap[p]) :
                       /\ p_vmmap[p][j].vma_start < lopage + npages
                       /\ lopage < p_vmmap[p][j].vma_end}},
   ptes |-> {pg \in UserPages :
               /\ lopage <= pg /\ pg < lopage + npages
               /\ p_pagedir[p][pg] # NoPte}]

Munmap(p, addr, len) ==
  /\ Running(p)
  /\ MunmapApply(p, do_munmap(objs, p_vmmap[p], p_pagedir[p], addr, len),
                 ADDR_TO_PN(addr), (len - 1) \div PAGE_SIZE + 1,
                 MunmapArgs(p, ADDR_TO_PN(addr), (len - 1) \div PAGE_SIZE + 1))

BrkApply(p, r, addr) ==
  /\ r.asserted
  /\ p_vmmap' = [p_vmmap EXCEPT ![p] = r.map]
  /\ p_pagedir' = [p_pagedir EXCEPT ![p] = r.pd]
  /\ p_brk' = [p_brk EXCEPT ![p] = r.brk]
  /\ last' = Op("brk", p, addr, r.ret, r.status)
  /\ UNCHANGED <<objs, p_state, p_status, p_start_brk, f_refcount, procvars>>

Brk(p, addr) ==
  /\ Running(p)
  /\ BrkApply(p, do_brk(p_vmmap[p], p_pagedir[p], p_brk[p], p_start_brk[p], addr), addr)

ForkApply(p, c, r) ==
  /\ r.ok
  /\ objs' = r.objs
  /\ p_vmmap' = [p_vmmap EXCEPT ![p] = r.map, ![c] = r.map2]
  /\ p_pagedir' = [p_pagedir EXCEPT ![p] = r.pd, ![c] = pt_create_pagedir]
  /\ p_state' = [p_state EXCEPT ![c] = p_state[p]]
  /\ p_status' = [p_status EXCEPT ![c] = p_status[p]]
  /\ p_brk' = [p_brk EXCEPT ![c] = p_brk[p]]
  /\ p_start_brk' = [p_start_brk EXCEPT ![c] = p_start_brk[p]]
  /\ f_refcount' = [fd \in DOMAIN f_refcount |-> f_refcount[fd] + 1]
  /\ p_pproc' = proc_create_pproc(p_pproc, p, c)
  /\ UNCHANGED pf_busy
  /\ p_children' = proc_create_children(p_children, p, c)
  /\ kt' = [kt EXCEPT ![p] = do_fork_thread(kt[p]).parent,
                       ![c] = do_fork_thread(kt[p]).child]
  /\ last' = Op("fork", p, c, 0, c)

\* the child takes the lowest free process slot
Fork(p) ==
  /\ Running(p)
  /\ \E c \in Procs :
       /\ p_state[c] = "free"
       /\ \A q \in Procs : p_state[q] = "free" => c <= q
       /\ ForkApply(p, c, do_fork(objs, p_vmmap[p], p_pagedir[p]))

\* does a user access to page pg trap into the fault handler
Faults(p, pg, cause) ==
  \/ p_pagedir[p][pg] = NoPte
  \/ (And(cause, FAULT_WRITE) /\ ~p_pagedir[p][pg].write)

FaultApply(p, r, pg, forwrite, cause) ==
  /\ last' = OpArgs("fault", p, pg, IF forwrite THEN 1 ELSE 0, r.kill, [cause |-> cause])
  /\ IF r.kill # 0
     THEN ExitEffect(p, r.objs, r.kill)
     ELSE /\ objs' = r.objs
          /\ p_pagedir' = [p_pagedir EXCEPT ![p] = r.pd]
          /\ UNCHANGED <<p_state, p_status, p_vmmap, p_brk, p_start_brk, f_refcount, procvars>>

Fault(p, pg, cause) ==
  /\ Running(p)
  /\ Faults(p, pg, cause)
  /\ FaultApply(p, handle_pagefault(objs, p_vmmap[p], p_pagedir[p], PN_TO_ADDR(pg), cause),
                pg, And(cause, FAULT_WRITE), cause)

\* a user store through a writable page-table entry
StoreApply(p, pf, pg, v) ==
  /\ pf[2] \in DOMAIN objs[pf[1]].mmo_respages
  /\ objs[pf[1]].mmo_respages[pf[2]] # v
  /\ objs' = [objs EXCEPT ![pf[1]].mmo_respages[pf[2]] = v]
  /\ last' = Op("store", p, pg, v, 0)
  /\ UNCHANGED <<p_state, p_status, p_vmmap, p_pagedir, p_brk, p_start_brk, f_refcount, procvars>>

UserStore(p, pg, v) ==
  /\ Running(p)
  /\ p_pagedir[p][pg].write
  /\ StoreApply(p, p_pagedir[p][pg].pf, pg, v)

VmmapWriteApply(p, r, pg, v) ==
  /\ objs' = [r.objs EXCEPT ![r.pf[1]].mmo_respages[r.pf[2]] = v]
  /\ last' = Op("vmmap_write", p, pg, v, 0)
  /\ UNCHANGED <<p_state, p_status, p_vmmap, p_pagedir, p_brk, p_start_brk, f_refcount, procvars>>

\* vmmap_write of one page of value v into a mapped page
VmmapWrite(p, pg, v) ==
  /\ Running(p)
  /\ vmmap_lookup(p_vmmap[p], pg) # NULL
  /\ VmmapWriteApply(p, vmmap_iop(objs, p_vmmap[p], PN_TO_ADDR(pg), TRUE), pg, v)

VmmapReadApply(p, r, pg) ==
  /\ objs' = r.objs
  /\ last' = Op("vmmap_read", p, pg, r.objs[r.pf[1]].mmo_respages[r.pf[2]], 0)
  /\ UNCHANGED <<p_state, p_status, p_vmmap, p_pagedir, p_brk, p_start_brk, f_refcount, procvars>>

\* vmmap_read of a mapped page
VmmapRead(p, pg) ==
  /\ Running(p)
  /\ vmmap_lookup(p_vmmap[p], pg) # NULL
  /\ VmmapReadApply(p, vmmap_iop(objs, p_vmmap[p], PN_TO_ADDR(pg), FALSE), pg)

Exit(p) ==
  /\ Running(p)
  /\ ExitEffect(p, objs, 0)
  /\ last' = Op("exit", p, 0, 0, 0)

(* ------------------------- exit and waitpid --------------------------- *)

\* do_exit(status) that runs to the end without blocking
ExitWith(p, status) ==
  /\ Running(p)
  /\ ExitEffect(p, objs, status)
  /\ last' = Op("exit", p, status, 0, 0)

\* do_exit(status) up to the point where proc_cleanup, having woken the
\* parent, blocks while it closes the files
ExitBlock(p, status) ==
  /\ Running(p)
  /\ p = PID_INIT => p_children[p] = << >>
  /\ p_status' = [p_status EXCEPT ![p] = status]
  /\ p_children' = proc_cleanup_children(p_children, p)
  /\ kt' = [sched_broadcast_on(kt, p_pproc[p]) EXCEPT ![p].kt_state = KT_SLEEP,
                                                      ![p].pc = "cleanup"]
  /\ last' = Op("exit", p, status, 0, 0)
  /\ UNCHANGED <<objs, p_state, p_vmmap, p_pagedir, p_brk, p_start_brk, f_refcount, p_pproc,
                 pf_busy>>

\* the blocked exit goes on: the files are closed, the vmmap is destroyed,
\* proc_thread_exited marks the thread and the process
ExitResume(p) ==
  /\ p_state[p] = "running"
  /\ kt[p].pc = "cleanup"
  /\ objs' = vmmap_destroy(objs, p_vmmap[p])
  /\ p_vmmap' = [p_vmmap EXCEPT ![p] = vmmap_create]
  /\ p_pagedir' = [p_pagedir EXCEPT ![p] = pt_create_pagedir]
  /\ p_state' = [p_state EXCEPT ![p] = "dead"]
  /\ f_refcount' = do_close_all(f_refcount)
  /\ kt' = [kt EXCEPT ![p].kt_state = KT_EXITED, ![p].pc = "none"]
  /\ UNCHANGED <<p_status, p_brk, p_start_brk, p_pproc, p_children, pf_busy, last>>

\* do_waitpid: the dead child at position i of the list is disposed of
WaitReap(p, pid, c, i) ==
  /\ kt[c].kt_state = KT_EXITED
  /\ p_children' = [p_children EXCEPT ![p] = RemoveAt(@, i)]
  /\ p_state' = [p_state EXCEPT ![c] = "free"]
  /\ p_status' = [p_status EXCEPT ![c] = 0]
  /\ p_pproc' = [p_pproc EXCEPT ![c] = NULL]
  /\ p_pagedir' = [p_pagedir EXCEPT ![c] = pt_create_pagedir]
  /\ p_brk' = [p_brk EXCEPT ![c] = 0]
  /\ p_start_brk' = [p_start_brk EXCEPT ![c] = 0]
  /\ kt' = [kt EXCEPT ![c] = NoThread, ![p].pc = "user", ![p].arg = 0, ![p].found = FALSE]
  /\ last' = Op("waitpid", p, pid, p_status[c], c)
  /\ UNCHANGED <<objs, p_vmmap, f_refcount, pf_busy>>

\* do_waitpid: return -ECHILD
WaitFail(p, pid) ==
  /\ kt' = [kt EXCEPT ![p].pc = "user", ![p].arg = 0, ![p].found = FALSE]
  /\ last' = Op("waitpid", p, pid, 0, -ECHILD)
  /\ UNCHANGED <<objs, p_state, p_status, p_vmmap, p_pagedir, p_brk, p_start_brk,
                 f_refcount, p_pproc, p_children, pf_busy>>

\* do_waitpid: sched_cancellable_sleep_on(&curproc->p_wait)
WaitSleep(p, pid) ==
  /\ ~kt[p].kt_cancelled
  /\ kt' = [kt EXCEPT ![p].kt_state = KT_SLEEP_CANCELLABLE, ![p].kt_wchan = p,
                      ![p].pc = "waitpid", ![p].arg = pid, ![p].found = TRUE]
  /\ last' = Op("waitpid_sleep", p, pid, 0, 0)
  /\ UNCHANGED <<objs, p_state, p_status, p_vmmap, p_pagedir, p_brk, p_start_brk,
                 f_refcount, p_pproc, p_children, pf_busy>>

\* do_waitpid: one round of the while loop
WaitLoop(p, pid, i) ==
  IF i # 0 THEN WaitReap(p, pid, p_children[p][i], i)
  ELSE IF ~(kt[p].found \/ do_waitpid_found(p_children[p], pid)) THEN WaitFail(p, pid)
  ELSE WaitSleep(p, pid)

\* do_waitpid(pid, 0, &status) from the call to its return or first sleep
Waitpid(p, pid) ==
  /\ Running(p)
  /\ IF p_children[p] = << >> THEN WaitFail(p, pid)
     ELSE WaitLoop(p, pid, do_waitpid_find(p_children[p], p_state, pid))

\* the sleeper was woken and goes round the loop again
WaitResume(p) ==
  /\ p_state[p] = "running"
  /\ kt[p].pc = "waitpid"
  /\ kt[p].kt_state = KT_RUN
  /\ WaitLoop(p, kt[p].arg, do_waitpid_find(p_children[p], p_state, kt[p].arg))

(* ---------------------- waiting for a busy page ----------------------- *)

\* the frame a lookup for reading of page pg of process p ends at
LookupFrame(p, pg) == vmmap_iop(objs, p_vmmap[p], PN_TO_ADDR(pg), FALSE).pf

\* a thread that goes round the busy-wait loop without ever sleeping keeps
\* the processor, and a thread that tests the busy flag of a null frame
\* stops the kernel: nothing else runs
NoSpin == \A t \in Procs : kt[t].pc \notin {"spin", "oops"}

\* a lookup that takes the resident frame as it is
shadow_lookuppage_nowait(busy, pf) == FALSE

\* shadow_lookuppage, the loop condition "while (pframe_is_busy(*pf))"
shadow_lookuppage_wait(busy, pf) == pf \in busy

\* shadow_fillpage, the loop condition "while (pframe_is_busy(page))"
shadow_fillpage_wait(busy, page) == page \in busy

\* the object and the page index a fault on page pg of process p goes to
FaultObj(p, pg) == p_vmmap[p][vmmap_lookup(p_vmmap[p], pg)].vma_obj
FaultIdx(p, pg) ==
  U32(pg - p_vmmap[p][vmmap_lookup(p_vmmap[p], pg)].vma_start
         + p_vmmap[p][vmmap_lookup(p_vmmap[p], pg)].vma_off)

\* a write fault on page pg that has shadow_fillpage fill a new frame of
\* the area's shadow object
Fills(p, pg) ==
  /\ vmmap_lookup(p_vmmap[p], pg) # NULL
  /\ And(PROT_WRITE, p_vmmap[p][vmmap_lookup(p_vmmap[p], pg)].vma_prot)
  /\ objs[FaultObj(p, pg)].kind = "shadow"
  /\ pframe_get_resident(objs, FaultObj(p, pg), FaultIdx(p, pg)) = NoFrame

\* the frame shadow_fillpage copies from: the walk starts below the object
FillSource(p, pg) ==
  shadow_lookuppage_loop(objs, objs[FaultObj(p, pg)].mmo_shadowed, FaultIdx(p, pg)).pf

\* I/O starts on a resident page of a shadow object: its busy flag is raised
BusyRaise(f) ==
  /\ objs[f[1]].kind = "shadow"
  /\ f[2] \in DOMAIN objs[f[1]].mmo_respages
  /\ f \notin pf_busy
  /\ pf_busy' = pf_busy \cup {f}
  /\ last' = Op("busy", 0, f[1], f[2], 0)
  /\ UNCHANGED <<objs, p_state, p_status, p_vmmap, p_pagedir, p_brk, p_start_brk,
                 f_refcount, p_pproc, p_children, kt>>

\* the I/O is over: the flag is lowered and the frame's queue is woken
BusyLower(f) ==
  /\ f \in pf_busy
  /\ pf_busy' = pf_busy \ {f}
  /\ kt' = sched_broadcast_on_pf(kt, f)
  /\ UNCHANGED <<objs, p_state, p_status, p_vmmap, p_pagedir, p_brk, p_start_brk,
                 f_refcount, p_pproc, p_children, last>>

\* vmmap_read whose shadow_lookuppage finds the page resident in a shadow
\* and busy: sched_cancellable_sleep_on(&(*pf)->pf_waitq)
ReadWait(p, pg) ==
  /\ Running(p)
  /\ vmmap_lookup(p_vmmap[p], pg) # NULL
  /\ objs[p_vmmap[p][vmmap_lookup(p_vmmap[p], pg)].vma_obj].kind = "shadow"
  /\ objs[LookupFrame(p, pg)[1]].kind = "shadow"
  /\ shadow_lookuppage_wait(pf_busy, LookupFrame(p, pg))
  /\ kt' = [kt EXCEPT ![p].kt_state = KT_SLEEP_CANCELLABLE, ![p].pc = "busywait",
                      ![p].wait = LookupFrame(p, pg), ![p].arg = pg]
  /\ last' = Op("vmmap_read_sleep", p, pg, 0, 0)
  /\ UNCHANGED <<objs, p_state, p_status, p_vmmap, p_pagedir, p_brk, p_start_brk,
                 f_refcount, p_pproc, p_children, pf_busy>>

\* vmmap_read that meets no busy page
ReadNow(p, pg) ==
  /\ vmmap_lookup(p_vmmap[p], pg) # NULL
  /\ ~shadow_lookuppage_wait(pf_busy, LookupFrame(p, pg))
  /\ VmmapRead(p, pg)

\* shadow_lookuppage, the loop "while (pframe_is_busy(*pf))" after the
\* sleep returned and the frame was probed again; the value
\* sched_cancellable_sleep_on returns is not looked at, nor is the probe
\* tested for a null frame.  Page gone: the busy flag of a null frame is
\* read.  Page still busy: a cancelled thread's next sleep returns at once
\* and the loop goes round for ever, another thread sleeps again.  Page no
\* longer busy: return 0 with the frame.
ReadResume(p) ==
  /\ kt[p].pc = "busywait"
  /\ kt[p].kt_state = KT_RUN
  /\ IF pframe_get_resident(objs, kt[p].wait[1], kt[p].wait[2]) = NoFrame
     THEN /\ kt' = [kt EXCEPT ![p].pc = "oops"]
          /\ last' = Op("null_frame", p, kt[p].arg, 0, 0)
     ELSE IF shadow_lookuppage_wait(pf_busy, kt[p].wait)
     THEN /\ kt' = IF kt[p].kt_cancelled
                   THEN [kt EXCEPT ![p].pc = "spin"]
                   ELSE [kt EXCEPT ![p].kt_state = KT_SLEEP_CANCELLABLE]
          /\ UNCHANGED last
     ELSE /\ kt' = [kt EXCEPT ![p].pc = "user", ![p].wait = NoFrame, ![p].arg = 0]
          /\ last' = OpArgs("vmmap_read", p, kt[p].arg,
                            objs[kt[p].wait[1]].mmo_respages[kt[p].wait[2]], 0,
                            [waited |-> kt[p].wait])
  /\ UNCHANGED <<objs, p_state, p_status, p_vmmap, p_pagedir, p_brk, p_start_brk,
                 f_refcount, p_pproc, p_children, pf_busy>>

\* a write fault whose shadow_fillpage finds the page to copy resident in a
\* shadow below and busy: sched_cancellable_sleep_on(&(page)->pf_waitq).
\* The frame being filled belongs to the faulting process's own top object
\* and no other thread looks it up; it is entered when the fill is done.
FaultWait(p, pg) ==
  /\ Running(p)
  /\ Faults(p, pg, FAULT_WRITE)
  /\ Fills(p, pg)
  /\ objs[FillSource(p, pg)[1]].kind = "shadow"
  /\ shadow_fillpage_wait(pf_busy, FillSource(p, pg))
  /\ kt' = [kt EXCEPT ![p].kt_state = KT_SLEEP_CANCELLABLE, ![p].pc = "fillwait",
                      ![p].wait = FillSource(p, pg), ![p].arg = pg]
  /\ last' = Op("fault_sleep", p, pg, 1, 0)
  /\ UNCHANGED <<objs, p_state, p_status, p_vmmap, p_pagedir, p_brk, p_start_brk,
                 f_refcount, p_pproc, p_children, pf_busy>>

\* a write fault that meets no busy page; on a page that is resident in the
\* area's own object the page cache waits until the frame is free
FaultNow(p, pg) ==
  /\ vmmap_lookup(p_vmmap[p], pg) # NULL
  /\ IF Fills(p, pg)
     THEN ~shadow_fillpage_wait(pf_busy, FillSource(p, pg))
     ELSE <<FaultObj(p, pg), FaultIdx(p, pg)>> \notin pf_busy
  /\ Fault(p, pg, FAULT_WRITE)

\* what the fault does once the page to copy is free
FillDone(p, r, pg) ==
  /\ objs' = r.objs
  /\ p_pagedir' = [p_pagedir EXCEPT ![p] = r.pd]
  /\ kt' = [kt EXCEPT ![p].pc = "user", ![p].wait = NoFrame, ![p].arg = 0]
  /\ last' = OpArgs("fault", p, pg, 1, r.kill, [cause |-> FAULT_WRITE, waited |-> kt[p].wait])

\* shadow_fillpage, the loop "while (pframe_is_busy(page))" after the sleep
\* returned and the page was probed again: as in shadow_lookuppage
FillResume(p) ==
  /\ kt[p].pc = "fillwait"
  /\ kt[p].kt_state = KT_RUN
  /\ IF pframe_get_resident(objs, kt[p].wait[1], kt[p].wait[2]) = NoFrame
     THEN /\ kt' = [kt EXCEPT ![p].pc = "oops"]
          /\ last' = Op("null_frame", p, kt[p].arg, 1, 0)
          /\ UNCHANGED <<objs, p_pagedir>>
     ELSE IF shadow_fillpage_wait(pf_busy, kt[p].wait)
     THEN /\ kt' = IF kt[p].kt_cancelled
                   THEN [kt EXCEPT ![p].pc = "spin"]
                   ELSE [kt EXCEPT ![p].kt_state = KT_SLEEP_CANCELLABLE]
          /\ UNCHANGED <<objs, p_pagedir, last>>
     ELSE FillDone(p, handle_pagefault(objs, p_vmmap[p], p_pagedir[p],
                                       PN_TO_ADDR(kt[p].arg), FAULT_WRITE), kt[p].arg)
  /\ UNCHANGED <<p_state, p_status, p_vmmap, p_brk, p_start_brk,
                 f_refcount, p_pproc, p_children, pf_busy>>

\* a process exits while I/O is in flight; the I/O on its own pages ends
\* before they are freed
ExitQuiet(p) ==
  /\ Exit(p)
  /\ \A f \in pf_busy : pframe_get_resident(objs', f[1], f[2]) # NoFrame

\* proc_kill(p, status) by another process: kthread_cancel of p's thread,
\* which must be asleep
Kill(q, p) ==
  /\ Running(q)
  /\ q # p
  /\ p_state[p] \in {"running", "dead"}
  /\ kt[p].kt_state \in {KT_SLEEP, KT_SLEEP_CANCELLABLE}
  /\ kt' = sched_cancel(kt, p)
  /\ last' = Op("kill", q, p, 0, 0)
  /\ UNCHANGED <<objs, p_state, p_status, p_vmmap, p_pagedir, p_brk, p_start_brk,
                 f_refcount, p_pproc, p_children, pf_busy>>

(* ------------------- exit, statement by statement -------------------- *)
\* A frame of the call stack: the function, the object (for vmmap_destroy
\* the process) it runs on, the statement it is at, and for vmmap_destroy
\* the objects and the map it was entered with.
Frame(fn, o, pc) == [fn |-> fn, o |-> o, pc |-> pc, entry |-> << >>]
At(fn, pc) == stack # << >> /\ Head(stack).fn = fn /\ Head(stack).pc = pc
Goto(pc) == <<[Head(stack) EXCEPT !.pc = pc]>> \o Tail(stack)

\* o->mmo_ops->put(o) as a call: the frame it pushes; the vnode's put runs
\* at once
CallPut(os, o) ==
  [objs |-> IF os[o].kind = "file" THEN file_put(os, o) ELSE os,
   frames |-> CASE os[o].kind = "shadow" -> <<Frame("shadow_put", o, "entry")>>
                [] os[o].kind = "anon" -> <<Frame("anon_put", o, "entry")>>
                [] OTHER -> << >>]

\* shadow_put: if (--o->mmo_refcount == o->mmo_nrespages)
shadow_put_entry(os, o) ==
  [objs |-> [os EXCEPT ![o].mmo_refcount = @ - 1],
   reap |-> os[o].mmo_refcount - 1 = mmo_nrespages(os[o])]

\* an anon_put that takes the reference away on entry, as shadow_put does
anon_put_entry_dec(os, o) ==
  [objs |-> [os EXCEPT ![o].mmo_refcount = @ - 1],
   reap |-> os[o].mmo_refcount - 1 = mmo_nrespages(os[o])]

\* anon_put: if (o->mmo_refcount - 1 == o->mmo_nrespages)
anon_put_entry(os, o) ==
  [objs |-> os, reap |-> os[o].mmo_refcount - 1 = mmo_nrespages(os[o])]

StepFrame ==
  UNCHANGED <<p_state, p_status, p_vmmap, p_pagedir, p_brk, p_start_brk, f_refcount, procvars,
              last, steps, extvars>>

\* do_exit: the thread exits, proc_cleanup enters vmmap_destroy
ExitBegin(p) ==
  /\ stack = << >>
  /\ Running(p)
  /\ p = PID_INIT => p_children[p] = << >>
  /\ p_children' = proc_cleanup_children(p_children, p)
  /\ kt' = proc_thread_exited(kt, p_pproc, p)
  /\ UNCHANGED <<p_pproc, pf_busy>>
  /\ stack' = <<[fn |-> "vmmap_destroy", o |-> p, pc |-> "iter",
                 entry |-> <<objs, p_vmmap[p]>>]>>
  /\ p_state' = [p_state EXCEPT ![p] = "dead"]
  /\ p_status' = [p_status EXCEPT ![p] = 0]
  /\ f_refcount' = do_close_all(f_refcount)
  /\ last' = Op("exit", p, 0, 0, 0)
  /\ UNCHANGED <<objs, p_vmmap, p_pagedir, p_brk, p_start_brk>>

\* vmmap_destroy: vma->vma_obj->mmo_ops->put(vma->vma_obj)
DestroyPut ==
  /\ At("vmmap_destroy", "iter")
  /\ p_vmmap[Head(stack).o] # << >>
  /\ objs' = CallPut(objs, Head(p_vmmap[Head(stack).o]).vma_obj).objs
  /\ stack' = CallPut(objs, Head(p_vmmap[Head(stack).o]).vma_obj).frames \o Goto("unlink")
  /\ StepFrame

\* vmmap_destroy: list_remove, vmarea_free
DestroyUnlink ==
  /\ At("vmmap_destroy", "unlink")
  /\ p_vmmap' = [p_vmmap EXCEPT ![Head(stack).o] = Tail(@)]
  /\ stack' = Goto("iter")
  /\ UNCHANGED <<objs, p_state, p_status, p_pagedir, p_brk, p_start_brk, f_refcount, procvars,
                 last, steps, extvars>>

\* vmmap_destroy returns; the page directory is never walked again
DestroyDone ==
  /\ At("vmmap_destroy", "iter")
  /\ p_vmmap[Head(stack).o] = << >>
  /\ p_pagedir' = [p_pagedir EXCEPT ![Head(stack).o] = pt_create_pagedir]
  /\ stack' = Tail(stack)
  /\ UNCHANGED <<objs, p_state, p_status, p_vmmap, p_brk, p_start_brk, f_refcount, procvars,
                 last, steps, extvars>>

ShadowPutEntry ==
  /\ At("shadow_put", "entry")
  /\ objs[Head(stack).o].mmo_refcount > 0
  /\ objs' = shadow_put_entry(objs, Head(stack).o).objs
  /\ stack' = IF shadow_put_entry(objs, Head(stack).o).reap THEN Goto("loop") ELSE Tail(stack)
  /\ StepFrame

\* shadow_put, in the loop: pframe_unpin(pf); ++o->mmo_refcount
ShadowPutPin ==
  /\ At("shadow_put", "loop")
  /\ objs[Head(stack).o].mmo_respages # NoPages
  /\ objs' = [objs EXCEPT ![Head(stack).o].mmo_refcount = @ + 1]
  /\ stack' = Goto("free")
  /\ StepFrame

\* shadow_put, in the loop: pframe_free(pf), which uncaches the page and
\* calls put on its object
ShadowPutFree ==
  /\ At("shadow_put", "free")
  /\ objs' = [objs EXCEPT ![Head(stack).o].mmo_respages =
                 DropPage(@, MinOf(DOMAIN objs[Head(stack).o].mmo_respages))]
  /\ stack' = CallPut(objs, Head(stack).o).frames \o Goto("loop")
  /\ StepFrame

\* shadow_put, after the loop: o->mmo_shadowed->mmo_ops->put(o->mmo_shadowed)
ShadowPutParent ==
  /\ At("shadow_put", "loop")
  /\ objs[Head(stack).o].mmo_respages = NoPages
  /\ objs[Head(stack).o].mmo_shadowed # NULL
  /\ objs' = CallPut(objs, objs[Head(stack).o].mmo_shadowed).objs
  /\ stack' = CallPut(objs, objs[Head(stack).o].mmo_shadowed).frames \o Goto("dealloc")
  /\ StepFrame

\* shadow_put: slab_obj_free(shadow_allocator, o)
ShadowPutDealloc ==
  /\ At("shadow_put", "dealloc")
  /\ objs' = [objs EXCEPT ![Head(stack).o] = FreeObj]
  /\ stack' = Tail(stack)
  /\ StepFrame

AnonPutEntry ==
  /\ At("anon_put", "entry")
  /\ objs[Head(stack).o].mmo_refcount > 0
  /\ objs' = anon_put_entry(objs, Head(stack).o).objs
  /\ stack' = IF anon_put_entry(objs, Head(stack).o).reap THEN Goto("loop") ELSE Tail(stack)
  /\ StepFrame

\* anon_put, in the loop: pframe_unpin(pf); pframe_free(pf)
AnonPutFree ==
  /\ At("anon_put", "loop")
  /\ objs[Head(stack).o].mmo_respages # NoPages
  /\ objs' = [objs EXCEPT ![Head(stack).o].mmo_respages =
                 DropPage(@, MinOf(DOMAIN objs[Head(stack).o].mmo_respages))]
  /\ stack' = CallPut(objs, Head(stack).o).frames \o Goto("loop")
  /\ StepFrame

\* anon_put, after the loop: --o->mmo_refcount
AnonPutDec ==
  /\ At("anon_put", "loop")
  /\ objs[Head(stack).o].mmo_respages = NoPages
  /\ objs' = [objs EXCEPT ![Head(stack).o].mmo_refcount = @ - 1]
  /\ stack' = Goto("dealloc")
  /\ StepFrame

\* anon_put: slab_obj_free(anon_allocator, o)
AnonPutDealloc ==
  /\ At("anon_put", "dealloc")
  /\ objs' = [objs EXCEPT ![Head(stack).o] = FreeObj]
  /\ stack' = Tail(stack)
  /\ StepFrame

(* ------------------- fork, statement by statement -------------------- *)

\* an order in which the child is made runnable before the parent's
\* page-table entries are taken away
do_fork_order_late == <<"shadows", "thread", "flush", "return">>

\* do_fork after the new process is set up: the shadow objects, the unmap
\* and flush, the new thread, the return
do_fork_order == <<"shadows", "flush", "thread", "return">>

ForkAfter(pc) ==
  do_fork_order[(CHOOSE i \in 1 .. Len(do_fork_order) : do_fork_order[i] = pc) + 1]

\* entry keeps the caller, its trap frame and the state do_fork started in
ForkFrame(p, c, regs) ==
  [fn |-> "do_fork", o |-> c, pc |-> do_fork_order[1],
   entry |-> <<p, regs, objs, p_vmmap[p], p_pagedir[p]>>]

ForkBeginApply(p, c, regs, cl) ==
  /\ objs' = cl.objs
  /\ p_vmmap' = [p_vmmap EXCEPT ![c] = cl.map]
  /\ p_pagedir' = [p_pagedir EXCEPT ![c] = pt_create_pagedir]
  /\ p_state' = [p_state EXCEPT ![c] = p_state[p]]
  /\ p_status' = [p_status EXCEPT ![c] = p_status[p]]
  /\ p_brk' = [p_brk EXCEPT ![c] = p_brk[p]]
  /\ p_start_brk' = [p_start_brk EXCEPT ![c] = p_start_brk[p]]
  /\ f_refcount' = [fd \in DOMAIN f_refcount |-> f_refcount[fd] + 1]
  /\ p_pproc' = proc_create_pproc(p_pproc, p, c)
  /\ UNCHANGED pf_busy
  /\ p_children' = proc_create_children(p_children, p, c)
  /\ kt' = [kt EXCEPT ![p].regs = regs]
  /\ stack' = <<ForkFrame(p, c, regs)>>
  /\ UNCHANGED last

\* the fork system call traps with the user registers regs; do_fork:
\* proc_create, the copied fields, vmmap_clone, the file references
ForkBegin(p, regs) ==
  /\ stack = << >>
  /\ Running(p)
  /\ do_fork(objs, p_vmmap[p], p_pagedir[p]).ok
  /\ \E c \in Procs :
       /\ p_state[c] = "free"
       /\ \A q \in Procs : p_state[q] = "free" => c <= q
       /\ ForkBeginApply(p, c, regs, vmmap_clone(objs, p_vmmap[p]))

ForkShadowsApply(p, c, r) ==
  /\ r.ok
  /\ objs' = r.objs
  /\ p_vmmap' = [p_vmmap EXCEPT ![p] = r.map, ![c] = r.map2]
  /\ stack' = Goto(ForkAfter("shadows"))
  /\ UNCHANGED <<p_state, p_status, p_pagedir, p_brk, p_start_brk, f_refcount, procvars,
                 last, steps, extvars>>

\* do_fork: the loop that gives every private area its two shadow objects
ForkShadows ==
  /\ At("do_fork", "shadows")
  /\ ForkShadowsApply(Head(stack).entry[1], Head(stack).o,
                      do_fork_shadows(p_vmmap[Head(stack).entry[1]],
                                      [objs |-> objs, map |-> p_vmmap[Head(stack).o]]))

\* do_fork: pt_unmap_range(curproc->p_pagedir, ...); tlb_flush_all()
ForkFlush ==
  /\ At("do_fork", "flush")
  /\ p_pagedir' = [p_pagedir EXCEPT ![Head(stack).entry[1]] =
                     do_fork_flush(@, [objs |-> objs, map |-> << >>, map2 |-> << >>,
                                       ok |-> TRUE]).pd]
  /\ stack' = Goto(ForkAfter("flush"))
  /\ UNCHANGED <<objs, p_state, p_status, p_vmmap, p_brk, p_start_brk, f_refcount,
                 procvars, last, steps, extvars>>

\* do_fork: kthread_clone, regs->r_eax = 0, fork_setup_stack,
\* sched_make_runnable
ForkThread ==
  /\ At("do_fork", "thread")
  /\ kt' = [kt EXCEPT ![Head(stack).entry[1]] = do_fork_thread(kt[Head(stack).entry[1]]).parent,
                      ![Head(stack).o] = do_fork_thread(kt[Head(stack).entry[1]]).child]
  /\ stack' = Goto(ForkAfter("thread"))
  /\ UNCHANGED <<objs, p_state, p_status, p_vmmap, p_pagedir, p_brk, p_start_brk,
                 f_refcount, p_pproc, p_children, pf_busy, last, steps, extvars>>

\* do_fork: return new_proc->p_pid
ForkReturn ==
  /\ At("do_fork", "return")
  /\ last' = Op("fork", Head(stack).entry[1], Head(stack).o, 0, Head(stack).o)
  /\ stack' = Tail(stack)
  /\ UNCHANGED <<objs, p_state, p_status, p_vmmap, p_pagedir, p_brk, p_start_brk,
                 f_refcount, procvars, steps, extvars>>

(* --------------------------- specifications ---------------------------- *)
PageAddrs == {PN_TO_ADDR(pg) : pg \in UserPages}
Lens == {k * PAGE_SIZE : k \in 1 .. MaxLenPages}
RW == PROT_READ \cup PROT_WRITE

\* one more operation of a run of at most bound operations
Tick(bound) == stack = << >> /\ steps < bound /\ steps' = steps + 1 /\ UNCHANGED stack
Step(bound) == Tick(bound) /\ UNCHANGED extvars

\* One process reshaping its address space: mmap at a kernel-chosen address
\* and MAP_FIXED at every user page, of anonymous, shared-file and
\* private-file mappings; munmap; brk; exit.
MapMmap ==
  /\ Step(MaxMapSteps)
  /\ \E len \in Lens, sharing \in {MAP_PRIVATE, MAP_SHARED}, anon \in {MAP_ANON, {}} :
       \/ Mmap(1, 0, len, RW, sharing \cup anon, "file", 0)
       \/ \E addr \in PageAddrs :
            Mmap(1, addr, len, RW, sharing \cup anon \cup MAP_FIXED, "file", 0)
MapMunmap ==
  /\ Step(MaxMapSteps)
  /\ \E addr \in PageAddrs, len \in Lens : Munmap(1, addr, len)
MapBrk ==
  /\ Step(MaxMapSteps)
  /\ \E addr \in PageAddrs \cup {USER_MEM_HIGH} : Brk(1, addr)
MapExit == Step(MaxMapSteps) /\ Exit(1)

NextMap ==
  \/ MapMmap
  \/ MapMunmap
  \/ MapBrk
  \/ MapExit

SpecMap == Init /\ [][NextMap]_vars

(* ------------------- properties of the address-space map --------------- *)
\* the areas of all address spaces, as (process, list position)
AreaIds == UNION {{<<p, k>> : k \in 1 .. Len(p_vmmap[p])} : p \in Procs}
AreaAt(id) == p_vmmap[id[1]][id[2]]

\* C2: in every reachable state the vmareas of every vmmap are sorted by
\* start page and pairwise disjoint (each area ends at or before the start
\* of the next one).
C2_SortedDisjoint ==
  \A p \in Procs : \A k \in 1 .. (Len(p_vmmap[p]) - 1) :
    /\ p_vmmap[p][k].vma_start <= p_vmmap[p][k + 1].vma_start
    /\ p_vmmap[p][k].vma_end <= p_vmmap[p][k + 1].vma_start

\* the pages the last munmap asked to remove
RemovedPages == last.a .. (last.a + last.b - 1)
Unmapped(op) == op.op = "munmap" /\ op.ret = 0

\* C3: once vmmap_remove(m, lo, n) has returned (here: under a successful
\* do_munmap), vmmap_lookup(m, p) is null for every page p of [lo, lo+n).
C3_RemoveClearsRange ==
  Unmapped(last) =>
    \A pg \in RemovedPages : vmmap_lookup(p_vmmap[last.proc], pg) = NULL

\* C3 witness: a removal that split one area in two (case 1): the two halves
\* of one object lie right below and right above the removed range
C3_Witness ==
  /\ Unmapped(last)
  /\ \E k \in 1 .. (Len(p_vmmap[1]) - 1) :
       /\ p_vmmap[1][k].vma_end = last.a
       /\ p_vmmap[1][k + 1].vma_start = last.a + last.b
       /\ p_vmmap[1][k].vma_obj = p_vmmap[1][k + 1].vma_obj

\* what a page of an address space is mapped to
PageMapping(map, pg) ==
  LET k == vmmap_lookup(map, pg) IN
  IF k = NULL
  THEN [mapped |-> FALSE, obj |-> NULL, index |-> 0, prot |-> {}, flags |-> {}]
  ELSE [mapped |-> TRUE, obj |-> map[k].vma_obj,
        index |-> U32(pg - map[k].vma_start + map[k].vma_off),
        prot |-> map[k].vma_prot, flags |-> map[k].vma_flags]

\* C4: vmmap_remove(m, lo, n) leaves every page outside [lo, lo+n) as it was:
\* mapped to the same mmobj at the same object page index with the same
\* protection and flags, or unmapped as before.
C4_RemoveFrame ==
  [][Unmapped(last') =>
       \A pg \in 0 .. (UserHighPn + MaxLenPages) :
         (pg < last'.a \/ pg >= last'.a + last'.b) =>
           PageMapping(p_vmmap'[last'.proc], pg) = PageMapping(p_vmmap[last'.proc], pg)]_vars

\* live shadow objects directly above o
ShadowsOf(o) == {q \in Objs : objs[q].kind = "shadow" /\ objs[q].mmo_shadowed = o}
AreasOf(o) == {id \in AreaIds : AreaAt(id).vma_obj = o}

\* C6: for every anonymous or shadow mmobj, refcount = (live vmareas whose
\* mmobj it is) + (live shadows whose shadowed it is) + resident pages.
C6_ExactAccounting ==
  \A o \in Objs : objs[o].kind \in {"anon", "shadow"} =>
    objs[o].mmo_refcount =
      Cardinality(AreasOf(o)) + Cardinality(ShadowsOf(o)) + mmo_nrespages(objs[o])

\* the objects of the shadow chain that starts at o, n links deep at most
RECURSIVE ChainOf(_, _)
ChainOf(o, n) ==
  IF o = NULL \/ n = 0 THEN {}
  ELSE {o} \cup ChainOf(objs[o].mmo_shadowed, n - 1)

ReachableObjs == UNION {ChainOf(AreaAt(id).vma_obj, MaxObjs) : id \in AreaIds}

\* C7: no anonymous or shadow object exists that is unreachable from every
\* vmarea: the release of the last reference reaped it.
C7_NoLeak ==
  \A o \in Objs : objs[o].kind \in {"anon", "shadow"} => o \in ReachableObjs

\* the areas of process p that reach into the pages lo .. hi-1
AreasIn(p, lo, hi) ==
  {k \in 1 .. Len(p_vmmap[p]) :
     p_vmmap[p][k].vma_start < hi /\ lo < p_vmmap[p][k].vma_end}

\* C14: after a successful mapping at a given page (lopage # 0) the new
\* area [lopage, lopage+npages) is the only area of the map that reaches
\* into that range, whichever pages of it had been mapped before.
C14_MapReplaces ==
  (last.op = "mmap" /\ last.ret = 0 /\ last.args.addr # 0) =>
    \A k \in AreasIn(last.proc, ADDR_TO_PN(last.args.addr),
                     ADDR_TO_PN(last.args.addr) + last.b) :
      /\ p_vmmap[last.proc][k].vma_start = ADDR_TO_PN(last.args.addr)
      /\ p_vmmap[last.proc][k].vma_end = ADDR_TO_PN(last.args.addr) + last.b
      /\ Cardinality(AreasIn(last.proc, ADDR_TO_PN(last.args.addr),
                             ADDR_TO_PN(last.args.addr) + last.b)) = 1

\* C15: in every reachable state every vmarea of every process lies inside
\* the user range: USER_MEM_LOW/PAGE_SIZE <= start < end <= USER_MEM_HIGH/PAGE_SIZE.
C15_InUserRange ==
  \A id \in AreaIds :
    /\ UserLowPn <= AreaAt(id).vma_start
    /\ AreaAt(id).vma_start < AreaAt(id).vma_end
    /\ AreaAt(id).vma_end <= UserHighPn

\* the starts of the runs of n pages that lie in the user range and meet
\* no area of the map
FreeStarts(map, n) ==
  {s \in UserLowPn .. UserHighPn :
     /\ s + n <= UserHighPn
     /\ \A i \in 1 .. Len(map) : ~(map[i].vma_start < s + n /\ s < map[i].vma_end)}

FindRangeContract(map, n, dir) ==
  IF FreeStarts(map, n) = {} THEN vmmap_find_range(map, n, dir) = -1
  ELSE \E s \in FreeStarts(map, n) :
         /\ vmmap_find_range(map, n, dir) = s
         /\ \A t \in FreeStarts(map, n) :
              IF dir = VMMAP_DIR_LOHI THEN s <= t ELSE t <= s

\* C23: on the map of every process, for every length and both directions,
\* vmmap_find_range returns -1 exactly when the user range holds no free
\* run of that length, and otherwise the lowest (LOHI) or highest (HILO)
\* start of such a run
C23_FindRange ==
  \A p \in Procs : \A n \in 1 .. (NumUserPages + 1) :
    \A dir \in {VMMAP_DIR_LOHI, VMMAP_DIR_HILO} :
      FindRangeContract(p_vmmap[p], n, dir)

\* the same on the maps whose areas are sorted, disjoint and in the user range
FindRangeOnSortedMaps ==
  \A p \in Procs :
    ((\A k \in 1 .. (Len(p_vmmap[p]) - 1) :
        p_vmmap[p][k].vma_end <= p_vmmap[p][k + 1].vma_start)
     /\ (\A k \in 1 .. Len(p_vmmap[p]) :
          /\ UserLowPn <= p_vmmap[p][k].vma_start
          /\ p_vmmap[p][k].vma_start <= p_vmmap[p][k].vma_end
          /\ p_vmmap[p][k].vma_end <= UserHighPn))
    => \A n \in 1 .. (NumUserPages + 1) :
         \A dir \in {VMMAP_DIR_LOHI, VMMAP_DIR_HILO} :
           FindRangeContract(p_vmmap[p], n, dir)

(* ---------------------- copy-on-write specification -------------------- *)
\* the pages the processes touch: the data page and the page below the top
\* of the user range, where the file mapping is placed
CowPages == {UserLowPn, UserHighPn - 1}
Causes == {{}, FAULT_WRITE}

\* Processes that fork, fault pages in for reading and for writing, store
\* through their page tables, have the kernel read and write their memory,
\* map the file privately and exit.  Every area is MAP_PRIVATE.
CowFork == Step(MaxCowSteps) /\ \E p \in Procs : Fork(p)
CowFault == Step(MaxCowSteps) /\ \E p \in Procs, pg \in CowPages, cause \in Causes : Fault(p, pg, cause)
CowStore == Step(MaxCowSteps) /\ \E p \in Procs, pg \in CowPages, v \in Vals : UserStore(p, pg, v)
CowWrite == Step(MaxCowSteps) /\ \E p \in Procs, pg \in CowPages, v \in Vals : VmmapWrite(p, pg, v)
CowRead == Step(MaxCowSteps) /\ \E p \in Procs, pg \in CowPages : VmmapRead(p, pg)
CowMmap == Step(MaxCowSteps) /\ Mmap(1, 0, PAGE_SIZE, RW, MAP_PRIVATE, "file", 0)
CowExit == Step(MaxCowSteps) /\ \E p \in Procs : Exit(p)

NextCow ==
  \/ CowFork
  \/ CowFault
  \/ CowStore
  \/ CowWrite
  \/ CowRead
  \/ CowMmap
  \/ CowExit

SpecCow == Init /\ [][NextCow]_vars

(* ------------------------ properties of copy-on-write ------------------ *)
\* the contents a read of page pg finds through the area's memory object
ReadVal(os, map, pg) ==
  LET r == vmmap_iop(os, map, PN_TO_ADDR(pg), FALSE) IN
  r.objs[r.pf[1]].mmo_respages[r.pf[2]]

\* the contents a user-mode load of page pg sees: the frame the page table
\* maps, and what the fault handler would map when it maps none
UserView(os, pd, map, pg) ==
  IF pd[pg] # NoPte THEN os[pd[pg].pf[1]].mmo_respages[pd[pg].pf[2]]
  ELSE ReadVal(os, map, pg)

PrivatePages(map) ==
  {pg \in UserPages :
     /\ vmmap_lookup(map, pg) # NULL
     /\ And(map[vmmap_lookup(map, pg)].vma_flags, MAP_PRIVATE)}

IsWrite(op) ==
  \/ op.op \in {"store", "vmmap_write"}
  \/ (op.op = "fault" /\ op.b = 1)

\* C1: after do_fork parent and child both read, for every page of every
\* MAP_PRIVATE area, the contents the page had at the fork; and a write
\* fault, store or vmmap_write by one process leaves what every other
\* process reads from its private pages unchanged.
C1_CowIsolation ==
  [][/\ last'.op = "fork" =>
          \A pg \in PrivatePages(p_vmmap[last'.proc]) :
            /\ UserView(objs', p_pagedir'[last'.proc], p_vmmap'[last'.proc], pg)
                 = ReadVal(objs, p_vmmap[last'.proc], pg)
            /\ UserView(objs', p_pagedir'[last'.a], p_vmmap'[last'.a], pg)
                 = ReadVal(objs, p_vmmap[last'.proc], pg)
     /\ IsWrite(last') =>
          \A p \in Procs \ {last'.proc} : Running(p) =>
            \A pg \in PrivatePages(p_vmmap[p]) :
              /\ UserView(objs', p_pagedir'[p], p_vmmap'[p], pg)
                   = UserView(objs, p_pagedir[p], p_vmmap[p], pg)
              /\ ReadVal(objs', p_vmmap'[p], pg) = ReadVal(objs, p_vmmap[p], pg)]_vars

\* C1 witness: a store has just changed a private page of the storing
\* process, and another process that shares the page's history still reads
\* the old contents
C1_Witness ==
  /\ last.op = "store"
  /\ \E p \in Procs \ {last.proc} :
       /\ Running(p)
       /\ last.a \in PrivatePages(p_vmmap[p])
       /\ UserView(objs, p_pagedir[p], p_vmmap[p], last.a) # last.b
       /\ UserView(objs, p_pagedir[last.proc], p_vmmap[last.proc], last.a) = last.b

\* the objects met when following mmo_shadowed from o, o first, down to the
\* first object that is no shadow; n bounds the walk
RECURSIVE ChainList(_, _)
ChainList(o, n) ==
  IF o = NULL \/ n = 0 THEN << >>
  ELSE IF objs[o].kind # "shadow" THEN <<o>>
  ELSE <<o>> \o ChainList(objs[o].mmo_shadowed, n - 1)

\* C8: every shadow object reachable from a vmarea has a non-null shadowed
\* link; following the links reaches an anonymous or file object in
\* finitely many steps without visiting an object twice; the shadow's
\* bottom pointer is that object.
C8_ChainWellFormed ==
  \A o \in ReachableObjs : objs[o].kind = "shadow" =>
    LET ch == ChainList(o, MaxObjs + 1) IN
    /\ objs[o].mmo_shadowed # NULL
    /\ objs[ch[Len(ch)]].kind \in {"anon", "file"}
    /\ Cardinality({ch[i] : i \in 1 .. Len(ch)}) = Len(ch)
    /\ objs[o].mmo_bottom_obj = ch[Len(ch)]

\* C8 witness: an area's shadow lies two shadows above its bottom object
C8_Witness ==
  \E id \in AreaIds :
    /\ objs[AreaAt(id).vma_obj].kind = "shadow"
    /\ Len(ChainList(AreaAt(id).vma_obj, MaxObjs + 1)) >= 3

\* page indexes the lookups are tried with
PageIdx == 0 .. (MaxLenPages - 1)
Shadows == {o \in Objs : objs[o].kind = "shadow"}

\* C9: a lookup for writing on shadow S returns a frame of S itself, and
\* the frame holds what a lookup for reading on S for the same index
\* would have returned right before.
C9_WriteLookup ==
  \A S \in Shadows : \A pagenum \in PageIdx :
    LET w == shadow_lookuppage(objs, S, pagenum, TRUE)
        r == shadow_lookuppage(objs, S, pagenum, FALSE)
    IN /\ w.status = 0
       /\ w.pf = <<S, pagenum>>
       /\ pagenum \in DOMAIN w.objs[S].mmo_respages
       /\ w.objs[S].mmo_respages[pagenum] = r.objs[r.pf[1]].mmo_respages[r.pf[2]]

\* C9 witness: a write fault has just copied a page into the faulting
\* area's shadow from a shadow further down that holds other contents than
\* the bottom object would supply
C9_Witness ==
  /\ last.op = "fault" /\ last.b = 1 /\ last.ret = 0
  /\ LET pf == p_pagedir[last.proc][last.a].pf
         ch == ChainList(pf[1], MaxObjs + 1)
     IN /\ objs[pf[1]].kind = "shadow"
        /\ \E i \in 2 .. (Len(ch) - 1) :
             /\ pf[2] \in DOMAIN objs[ch[i]].mmo_respages
             /\ objs[ch[i]].mmo_respages[pf[2]] = objs[pf[1]].mmo_respages[pf[2]]
             /\ objs[ch[i]].mmo_respages[pf[2]]
                  # pframe_get(objs, ch[Len(ch)], pf[2]).objs[ch[Len(ch)]].mmo_respages[pf[2]]

\* positions of the chain of S at which a shadow holds page pagenum
Holders(S, pagenum) ==
  LET ch == ChainList(S, MaxObjs + 1) IN
  {i \in 1 .. Len(ch) :
     objs[ch[i]].kind = "shadow" /\ pagenum \in DOMAIN objs[ch[i]].mmo_respages}

\* C10: a lookup for reading on shadow S returns the resident page of the
\* first shadow in chain order (S, S.shadowed, ...) that holds the index,
\* and the page of the bottom object when no shadow of the chain holds it.
C10_ReadLookup ==
  \A S \in Shadows : \A pagenum \in PageIdx :
    LET ch == ChainList(S, MaxObjs + 1)
        r == shadow_lookuppage(objs, S, pagenum, FALSE)
    IN IF Holders(S, pagenum) # {}
       THEN /\ r.status = 0
            /\ r.pf = <<ch[MinOf(Holders(S, pagenum))], pagenum>>
            /\ r.objs = objs
       ELSE r = pframe_get(objs, ch[Len(ch)], pagenum)

\* C10 witness: a read fault has just mapped a frame of a shadow further
\* down the chain than the faulting area's own shadow
C10_Witness ==
  /\ last.op = "fault" /\ last.b = 0 /\ last.ret = 0
  /\ LET pf == p_pagedir[last.proc][last.a].pf
         k == vmmap_lookup(p_vmmap[last.proc], last.a)
     IN /\ objs[pf[1]].kind = "shadow"
        /\ pf[1] # p_vmmap[last.proc][k].vma_obj

\* a read access of a mapped page: a read or fetch fault that passes the
\* checks, or a vmmap_read
ReadAccess(op) ==
  \/ op.op = "vmmap_read"
  \/ (op.op = "fault" /\ op.ret = 0 /\ ~And(op.args.cause, FAULT_WRITE))

\* C25: a read access through an area backed by a shadow object changes no
\* shadow object at all (resident pages and reference count alike) and no
\* object other than the non-shadow object at the bottom of the chain,
\* which may only gain the one page that was read
C25_ReadKeepsShadows ==
  [][(steps' # steps /\ ReadAccess(last')) =>
       LET p == last'.proc
           k == vmmap_lookup(p_vmmap[p], last'.a)
           ch == ChainList(p_vmmap[p][k].vma_obj, MaxObjs + 1)
           bot == ch[Len(ch)]
           idx == U32(last'.a - p_vmmap[p][k].vma_start + p_vmmap[p][k].vma_off)
       IN (k # NULL /\ objs[p_vmmap[p][k].vma_obj].kind = "shadow") =>
            /\ \A o \in Objs : objs[o].kind = "shadow" => objs'[o] = objs[o]
            /\ \A o \in Objs \ {bot} : objs'[o] = objs[o]
            /\ objs[bot].kind # "shadow"
            /\ DOMAIN objs'[bot].mmo_respages = DOMAIN objs[bot].mmo_respages \cup {idx}
            /\ \A i \in DOMAIN objs[bot].mmo_respages :
                 objs'[bot].mmo_respages[i] = objs[bot].mmo_respages[i]]_vars

\* C25 witness: a read fault through a shadow-backed area found the page in
\* no shadow and brought it into the bottom object
C25_Witness ==
  /\ last.op = "fault" /\ last.b = 0 /\ last.ret = 0
  /\ LET pf == p_pagedir[last.proc][last.a].pf
         k == vmmap_lookup(p_vmmap[last.proc], last.a)
     IN /\ k # NULL
        /\ objs[p_vmmap[last.proc][k].vma_obj].kind = "shadow"
        /\ pf # NoFrame
        /\ objs[pf[1]].kind # "shadow"
        /\ objs[pf[1]].mmo_refcount >= 2

(* ------------------------ page-fault specification --------------------- *)
\* One process that maps anonymous, shared-file and private-file memory at
\* kernel-chosen addresses with every protection, touches pages (read, write
\* and instruction fetch), stores through its page table and unmaps ranges.
Prots == {PROT_NONE, RW, PROT_READ \cup PROT_EXEC}
FltLens == {PAGE_SIZE, MaxLenPages * PAGE_SIZE}
Sharings == {MAP_PRIVATE \cup MAP_ANON, MAP_SHARED, MAP_PRIVATE}
AllCauses == {{}, FAULT_WRITE, FAULT_EXEC}

FltMmap ==
  /\ Step(MaxFaultSteps)
  /\ \E len \in FltLens, prot \in Prots, flags \in Sharings :
       Mmap(1, 0, len, prot, flags, "file", 0)
FltFault ==
  /\ Step(MaxFaultSteps)
  /\ \E pg \in UserPages, cause \in AllCauses : Fault(1, pg, cause)
FltStore == Step(MaxFaultSteps) /\ \E pg \in UserPages : UserStore(1, pg, MaxVal)
FltMunmap ==
  /\ Step(MaxFaultSteps)
  /\ \E addr \in PageAddrs, len \in Lens : Munmap(1, addr, len)

NextFault ==
  \/ FltMmap
  \/ FltFault
  \/ FltStore
  \/ FltMunmap

SpecFault == Init /\ [][NextFault]_vars

(* ----------------------- properties of page faults --------------------- *)
\* the access that a fault of this cause stands for is not allowed on page
\* pg of the map: no area, or an area whose protection forbids it
Forbidden(map, pg, cause) ==
  LET k == vmmap_lookup(map, pg) IN
  \/ k = NULL
  \/ (And(cause, FAULT_WRITE) /\ ~And(PROT_WRITE, map[k].vma_prot))
  \/ (And(cause, FAULT_EXEC) /\ ~And(PROT_EXEC, map[k].vma_prot))
  \/ map[k].vma_prot = PROT_NONE

\* C11: a page fault on a page that no vmarea contains, a write fault on an
\* area without WRITE, an execute fault on an area without EXEC, and any
\* fault on an area whose protection is NONE terminate the process with
\* exit status EFAULT.
C11_FaultDenied ==
  [][(last'.op = "fault"
      /\ Forbidden(p_vmmap[last'.proc], last'.a, last'.args.cause))
       => /\ last'.ret = EFAULT
          /\ p_state'[last'.proc] = "dead"
          /\ p_status'[last'.proc] = EFAULT]_vars

\* C12: after do_munmap(A, len) returned 0, no vmarea and no page-table
\* entry of the caller covers a page of [A, A+len); an access to such a page
\* traps, and the fault handler terminates the process with EFAULT.
C12_UnmapFaults ==
  Unmapped(last) =>
    \A pg \in RemovedPages :
      /\ vmmap_lookup(p_vmmap[last.proc], pg) = NULL
      /\ p_pagedir[last.proc][pg] = NoPte
      /\ \A cause \in AllCauses :
           /\ Faults(last.proc, pg, cause)
           /\ handle_pagefault(objs, p_vmmap[last.proc], p_pagedir[last.proc],
                               PN_TO_ADDR(pg), cause).kill = EFAULT

\* C12 witness: the munmap took away pages of an area that had been faulted
\* in and had page-table entries
C12_Witness ==
  /\ Unmapped(last)
  /\ last.args.hit # {}
  /\ last.args.ptes # {}

(* ------------------ properties of mapping and unmapping ---------------- *)
\* C24: a fault that passes the checks installs, for the faulting page, an
\* entry that maps the frame lookuppage returns for the page index and for
\* forwrite = "the fault is a write", present and user, and writable exactly
\* when the fault was a write (the area is then writable); a read fault
\* never installs a writable entry
C24_PteFlags ==
  [][(steps' # steps /\ last'.op = "fault" /\ last'.ret = 0) =>
       LET p == last'.proc
           pg == last'.a
           w == And(last'.args.cause, FAULT_WRITE)
           vma == p_vmmap[p][vmmap_lookup(p_vmmap[p], pg)]
       IN /\ vmmap_lookup(p_vmmap[p], pg) # NULL
          /\ p_pagedir'[p][pg] =
               [pf |-> pframe_lookup(objs, vma.vma_obj,
                                     U32(pg - vma.vma_start + vma.vma_off), w).pf,
                write |-> w /\ And(PROT_WRITE, vma.vma_prot),
                user |-> TRUE]
          /\ p_pagedir'[p][pg].pf # NoFrame
          /\ (~w => ~p_pagedir'[p][pg].write)
          /\ (w => And(PROT_WRITE, vma.vma_prot))
          /\ \A q \in UserPages \ {pg} : p_pagedir'[p][q] = p_pagedir[p][q]]_vars

\* C24 witness: a read fault on a writable area has installed a present,
\* user, read-only entry
C24_Witness ==
  /\ last.op = "fault"
  /\ last.ret = 0
  /\ ~And(last.args.cause, FAULT_WRITE)
  /\ vmmap_lookup(p_vmmap[last.proc], last.a) # NULL
  /\ And(PROT_WRITE, p_vmmap[last.proc][vmmap_lookup(p_vmmap[last.proc], last.a)].vma_prot)
  /\ p_pagedir[last.proc][last.a].pf # NoFrame
  /\ p_pagedir[last.proc][last.a].user
  /\ ~p_pagedir[last.proc][last.a].write

\* position of the area of process p that is exactly [lo, hi), NULL if none
ExactArea(p, lo, hi) ==
  LET hits == {k \in 1 .. Len(p_vmmap[p]) :
                 p_vmmap[p][k].vma_start = lo /\ p_vmmap[p][k].vma_end = hi} IN
  IF hits = {} THEN NULL ELSE MinOf(hits)

\* the area at position k of process p is as do_mmap made it at an address
\* of the kernel's choice, but for pages faulted in since: alone in its
\* range, and its anonymous or shadow object referenced by nothing else
AsMapped(p, k) ==
  LET vma == p_vmmap[p][k] IN
  /\ ~And(vma.vma_flags, MAP_FIXED)
  /\ AreasIn(p, vma.vma_start, vma.vma_end) = {k}
  /\ objs[vma.vma_obj].kind \in {"anon", "shadow"} =>
       /\ AreasOf(vma.vma_obj) = {<<p, k>>}
       /\ ShadowsOf(vma.vma_obj) = {}
       /\ objs[vma.vma_obj].mmo_refcount = 1 + mmo_nrespages(objs[vma.vma_obj])

\* references to o that are not held by its resident pages
HeldRefs(os, o) == os[o].mmo_refcount - mmo_nrespages(os[o])

\* C16: do_munmap of exactly the range of an area that do_mmap placed at an
\* address of its choice removes that area and nothing else, so that the
\* map is as it was before the mapping, frees the anonymous or shadow
\* object the mapping made and gives back the reference on the object
\* below, whether or not pages were faulted in.
C16_RoundTrip ==
  [][(Unmapped(last')
      /\ ExactArea(last'.proc, last'.a, last'.a + last'.b) # NULL
      /\ AsMapped(last'.proc, ExactArea(last'.proc, last'.a, last'.a + last'.b)))
       => LET p == last'.proc
              k == ExactArea(p, last'.a, last'.a + last'.b)
              o == p_vmmap[p][k].vma_obj
              bottom == mmobj_bottom_obj(objs, o)
          IN /\ p_vmmap'[p] = RemoveAt(p_vmmap[p], k)
             /\ objs[o].kind \in {"anon", "shadow"} => objs'[o] = FreeObj
             /\ objs[bottom].kind = "file" =>
                  HeldRefs(objs', bottom) = HeldRefs(objs, bottom) - 1]_vars

\* C16 witness: the munmap took away exactly one area, over exactly its
\* range, that had page-table entries; the map is back to the data area and
\* no object but the file's and the data area's is left
C16_Witness ==
  /\ Unmapped(last)
  /\ last.args.hit = {<<last.a, last.a + last.b>>}
  /\ last.args.ptes # {}
  /\ Len(p_vmmap[1]) = 1
  /\ \A o \in Objs \ {FileObj, InitObj} : objs[o] = FreeObj

\* the ranges of the areas of a map
Ranges(map) == {<<map[k].vma_start, map[k].vma_end>> : k \in 1 .. Len(map)}

\* the munmap of this step cuts a range out of the inside of one area
SplitsArea(op) ==
  /\ Unmapped(op)
  /\ Cardinality(AreasIn(op.proc, op.a, op.a + op.b)) = 1
  /\ \A k \in AreasIn(op.proc, op.a, op.a + op.b) :
       /\ p_vmmap[op.proc][k].vma_start < op.a
       /\ op.a + op.b < p_vmmap[op.proc][k].vma_end

\* the area that the munmap of this step splits
SplitArea(op) ==
  p_vmmap[op.proc][MinOf(AreasIn(op.proc, op.a, op.a + op.b))]

SplitInTwo(op) ==
  /\ Len(p_vmmap'[op.proc]) = Len(p_vmmap[op.proc]) + 1
  /\ Ranges(p_vmmap'[op.proc]) =
       (Ranges(p_vmmap[op.proc]) \ {<<SplitArea(op).vma_start, SplitArea(op).vma_end>>})
         \cup {<<SplitArea(op).vma_start, op.a>>, <<op.a + op.b, SplitArea(op).vma_end>>}

GoodCalls ==
  {MmapArgs(0, PAGE_SIZE, prot, flags, "file", 0) :
     prot \in {PROT_READ, RW}, flags \in {MAP_PRIVATE, MAP_SHARED}}

Variants(c) ==
  {c,
   [c EXCEPT !.addr = PAGE_SIZE \div 2],
   [c EXCEPT !.off = 1],
   [c EXCEPT !.len = 0],
   [c EXCEPT !.flags = MAP_PRIVATE \cup MAP_SHARED],
   [c EXCEPT !.flags = {}],
   [c EXCEPT !.flags = @ \cup MAP_FIXED],
   [c EXCEPT !.flags = @ \cup MAP_FIXED, !.addr = USER_MEM_HIGH],
   [c EXCEPT !.flags = @ \cup MAP_FIXED, !.addr = PN_TO_ADDR(UserHighPn - 1)],
   [c EXCEPT !.fd = "bad"],
   [c EXCEPT !.fd = "bad", !.flags = @ \cup MAP_ANON],
   [c EXCEPT !.fd = "rofile"],
   [c EXCEPT !.fd = "wofile"]}

ArgCalls == UNION {Variants(c) : c \in GoodCalls}

ArgMmap ==
  /\ Step(MaxArgSteps)
  /\ \E c \in ArgCalls : Mmap(1, c.addr, c.len, c.prot, c.flags, c.fd, c.off)
ArgFault ==
  /\ Step(MaxArgSteps)
  /\ \E cause \in Causes : Fault(1, UserHighPn - 1, cause)

NextArg ==
  \/ ArgMmap
  \/ ArgFault

SpecArg == Init /\ [][NextArg]_vars

(* ---------------------- properties of mmap's errors -------------------- *)
\* the classes of bad calls, in the words of mmap(2)
Invalid(c) ==
  \/ c.addr % PAGE_SIZE # 0
  \/ c.off % PAGE_SIZE # 0
  \/ c.len = 0
  \/ ("private" \in c.flags) = ("shared" \in c.flags)
  \/ ("fixed" \in c.flags /\ (c.addr < USER_MEM_LOW \/ c.addr >= USER_MEM_HIGH))
BadFd(c) == "anon" \notin c.flags /\ c.fd \notin Fds
NotPermitted(c) ==
  /\ "anon" \notin c.flags
  /\ c.fd \in Fds
  /\ \/ "r" \notin f_mode(c.fd)
     \/ ("shared" \in c.flags /\ "w" \in c.prot /\ "w" \notin f_mode(c.fd))

\* C13: do_mmap returns -EINVAL for a misaligned addr or offset, a zero
\* len, both or neither of SHARED/PRIVATE and FIXED with addr outside the
\* user range, -EBADF for a non-ANON mapping of an invalid fd, -EACCES when
\* the file's access mode does not permit the mapping; and a call that
\* returns one of these errors leaves the areas, the mmobjs, the page tables
\* and the file reference counts as they were.
C13_MmapErrors ==
  [][last'.op = "mmap" =>
       /\ Invalid(last'.args) => last'.ret = -EINVAL
       /\ (~Invalid(last'.args) /\ BadFd(last'.args)) => last'.ret = -EBADF
       /\ (~Invalid(last'.args) /\ NotPermitted(last'.args)) => last'.ret = -EACCES
       /\ last'.ret \in {-EINVAL, -EBADF, -EACCES} =>
            UNCHANGED <<objs, p_vmmap, p_pagedir, f_refcount>>]_vars

\* C13 witness: a call refused with -EACCES by a process that has a file
\* mapping with a page faulted in
C13_Witness ==
  /\ last.op = "mmap"
  /\ last.ret = -EACCES
  /\ Len(p_vmmap[1]) > 1
  /\ p_pagedir[1][UserHighPn - 1] # NoPte

(* --------------------------- heap specification ------------------------ *)
\* One process moving its break - to page boundaries from the bottom of the
\* user range to one page past its top, into the middle of a page, and
\* asking for it with NULL - and touching and storing to its pages.
BrkAddrs ==
  {NULL, PN_TO_ADDR(UserLowPn + 1) + 1}
    \cup {PN_TO_ADDR(pg) : pg \in UserLowPn .. (UserHighPn + 1)}

BrkBrk == Step(MaxBrkSteps) /\ \E addr \in BrkAddrs : Brk(1, addr)
BrkFault ==
  /\ Step(MaxBrkSteps)
  /\ \E pg \in UserPages, cause \in Causes : Fault(1, pg, cause)
BrkStore == Step(MaxBrkSteps) /\ \E pg \in UserPages : UserStore(1, pg, MaxVal)

NextBrk ==
  \/ BrkBrk
  \/ BrkFault
  \/ BrkStore

SpecBrk == Init /\ [][NextBrk]_vars

(* ------------------------- properties of the heap ---------------------- *)
\* C18: do_brk called with the current break succeeds, returns that break
\* and leaves p_brk, the areas and the page table as they were.
C18_BrkIdempotent ==
  [][(last'.op = "brk" /\ last'.a # NULL /\ last'.a = p_brk[last'.proc])
       => /\ last'.ret = 0
          /\ last'.b = p_brk[last'.proc]
          /\ UNCHANGED <<p_brk, p_vmmap, p_pagedir>>]_vars

\* C19: do_brk(addr), addr # NULL, succeeds only if
\* p_start_brk <= addr <= USER_MEM_HIGH; for an addr below p_start_brk or
\* above USER_MEM_HIGH it returns an error and leaves p_brk and the areas
\* as they were.
C19_BrkBounds ==
  [][(last'.op = "brk" /\ last'.a # NULL)
       => /\ last'.ret = 0 =>
               /\ p_start_brk[last'.proc] <= last'.a
               /\ last'.a <= USER_MEM_HIGH
          /\ (last'.a < p_start_brk[last'.proc] \/ last'.a > USER_MEM_HIGH) =>
               /\ last'.ret < 0
               /\ UNCHANGED <<p_brk, p_vmmap>>]_vars

\* C20: do_brk(b0) with p_start_brk <= b0 < p_brk, a break lowered after it
\* was raised, succeeds and returns b0; the heap area then ends at page
\* ceil(b0 / PAGE_SIZE), and the pages from there to the old end of the
\* heap have no page-table entry, so that an access to them faults.
C20_BrkShrink ==
  [][(last'.op = "brk" /\ last'.a # NULL
      /\ PAGE_ALIGNED(last'.a)
      /\ p_start_brk[last'.proc] <= last'.a
      /\ last'.a < p_brk[last'.proc])
       => LET p == last'.proc
              k == vmmap_lookup(p_vmmap[p], ADDR_TO_PN(p_brk[p]) - 1)
          IN /\ last'.ret = 0
             /\ last'.b = last'.a
             /\ p_brk'[p] = last'.a
             /\ p_vmmap'[p][k].vma_end = ADDR_TO_PN(PAGE_ALIGN_UP(last'.a))
             /\ \A pg \in UserPages :
                  (ADDR_TO_PN(last'.a) <= pg /\ pg < ADDR_TO_PN(p_brk[p]))
                    => p_pagedir'[p][pg] = NoPte]_vars

(* --------------------------- exit specification ----------------------- *)
\* Processes that map two pages of the file privately, fork and fault pages
\* in, and then exit with vmmap_destroy, the puts it issues and their reap
\* loops run one statement at a time; nothing else runs until the exit is
\* through.
ReapPages == {UserLowPn, UserHighPn - 2, UserHighPn - 1}
ReapFork == Step(MaxReapSteps) /\ \E p \in Procs : Fork(p)
ReapFault ==
  Step(MaxReapSteps) /\ \E p \in Procs, pg \in ReapPages, cause \in Causes : Fault(p, pg, cause)
ReapMmap == Step(MaxReapSteps) /\ Mmap(1, 0, 2 * PAGE_SIZE, RW, MAP_PRIVATE, "file", 0)
ReapExit ==
  /\ steps < MaxReapSteps
  /\ steps' = steps + 1
  /\ UNCHANGED extvars
  /\ \E p \in Procs : ExitBegin(p)

NextReap ==
  \/ ReapFork
  \/ ReapFault
  \/ ReapMmap
  \/ ReapExit
  \/ DestroyPut
  \/ DestroyUnlink
  \/ DestroyDone
  \/ ShadowPutEntry
  \/ ShadowPutPin
  \/ ShadowPutFree
  \/ ShadowPutParent
  \/ ShadowPutDealloc
  \/ AnonPutEntry
  \/ AnonPutFree
  \/ AnonPutDec
  \/ AnonPutDealloc

SpecReap == Init /\ [][NextReap]_vars

\* C5: for every mmobj, refcount >= resident pages in every reachable
\* state, the states between the statements of the reap loops of
\* shadow_put and anon_put (each freed page puts its object again) included.
C5_RefcountCoversPages ==
  \A o \in Objs : objs[o].mmo_refcount >= mmo_nrespages(objs[o])

\* C5 witness: inside a reap loop, in the put that freeing a page issued on
\* the object being reaped, while the object still holds resident pages
C5_Witness ==
  /\ Len(stack) >= 3
  /\ stack[1].fn = stack[2].fn
  /\ stack[1].o = stack[2].o
  /\ stack[1].pc = "entry"
  /\ stack[2].pc = "loop"
  /\ objs[stack[1].o].mmo_respages # NoPages

\* C27: when shadow_put or anon_put is about to free the object it reaps,
\* the object's reference count is 0 and it has no resident page
C27_ReapAtZero ==
  (At("shadow_put", "dealloc") \/ At("anon_put", "dealloc")) =>
    /\ objs[Head(stack).o].mmo_refcount = 0
    /\ mmo_nrespages(objs[Head(stack).o]) = 0

\* the statement-by-statement exit ends where vmmap_destroy, taken as one
\* step, ends
ExitMatchesDestroy ==
  [][DestroyDone => objs' = vmmap_destroy(Head(stack).entry[1], Head(stack).entry[2])]_vars

(* --------------------------- fork specification ------------------------ *)
\* Processes that touch their pages and fork, the fork run phase by phase:
\* page-table entries exist when a fork starts, private and shared areas
\* are both present, and the trap frame of the fork call varies.
TrapFrames == [r_eax : Vals, r_ebx : Vals]
FkFault ==
  Step(MaxForkSteps) /\ \E p \in Procs, pg \in CowPages, cause \in Causes : Fault(p, pg, cause)
FkMmap ==
  /\ Step(MaxForkSteps)
  /\ \E sharing \in {MAP_PRIVATE, MAP_SHARED} : Mmap(1, 0, PAGE_SIZE, RW, sharing, "file", 0)
FkFork ==
  /\ steps < MaxForkSteps
  /\ steps' = steps + 1
  /\ UNCHANGED extvars
  /\ \E p \in Procs, regs \in TrapFrames : ForkBegin(p, regs)

NextFork ==
  \/ FkFault
  \/ FkMmap
  \/ FkFork
  \/ ForkShadows
  \/ ForkFlush
  \/ ForkThread
  \/ ForkReturn

SpecFork == Init /\ [][NextFork]_vars

InFork == stack # << >> /\ Head(stack).fn = "do_fork"

\* the fork run phase by phase ends where do_fork, taken as one step, ends
ForkMatchesDoFork ==
  [][(InFork /\ stack' = << >>) =>
       LET p == Head(stack).entry[1]
           c == Head(stack).o
           r == do_fork(Head(stack).entry[3], Head(stack).entry[4], Head(stack).entry[5])
       IN /\ objs' = r.objs
          /\ p_vmmap'[p] = r.map
          /\ p_vmmap'[c] = r.map2
          /\ p_pagedir'[p] = r.pd
          /\ p_pagedir'[c] = pt_create_pagedir]_vars

\* every private area of the parent and its copy in the child sit on two
\* fresh shadow objects over the same object
ForkShadowed(p, c) ==
  /\ Len(p_vmmap[p]) = Len(p_vmmap[c])
  /\ \A k \in 1 .. Len(p_vmmap[p]) :
       And(p_vmmap[p][k].vma_flags, MAP_PRIVATE) =>
         LET s1 == p_vmmap[p][k].vma_obj
             s2 == p_vmmap[c][k].vma_obj
         IN /\ s1 # s2
            /\ objs[s1].kind = "shadow" /\ objs[s2].kind = "shadow"
            /\ objs[s1].mmo_respages = NoPages /\ objs[s2].mmo_respages = NoPages
            /\ objs[s1].mmo_refcount = 1 /\ objs[s2].mmo_refcount = 1
            /\ objs[s1].mmo_shadowed = objs[s2].mmo_shadowed
            /\ objs[s1].mmo_shadowed = Head(stack).entry[4][k].vma_obj

NoUserPteIn(pd) == \A pg \in UserPages : pd[pg] = NoPte
NoUserPte(p) == NoUserPteIn(p_pagedir[p])

\* C21: inside do_fork, the parent's user page-table entries are taken away
\* in a state in which every private area already has its new shadow, and
\* the step that makes the child's thread runnable and the return of
\* do_fork both start in a state in which neither the parent's nor the
\* child's page directory holds a user entry
C21_ForkFlushOrder ==
  [][InFork =>
       LET p == Head(stack).entry[1]
           c == Head(stack).o
       IN /\ (p_pagedir'[p] # p_pagedir[p] \/ Head(stack).pc = "flush")
               => (ForkShadowed(p, c) /\ kt[c].kt_state # KT_RUN
                   /\ NoUserPteIn(p_pagedir'[p]) /\ NoUserPteIn(p_pagedir'[c]))
          /\ (kt[c].kt_state # KT_RUN /\ kt'[c].kt_state = KT_RUN)
               => (ForkShadowed(p, c) /\ NoUserPte(p) /\ NoUserPte(c))
          /\ stack' = << >>
               => (ForkShadowed(p, c) /\ NoUserPte(p) /\ NoUserPte(c)
                   /\ kt[c].kt_state = KT_RUN)]_vars

\* C21 witness: a parent that had a page-table entry when it called fork is
\* about to return from do_fork; its area is shadowed, its page directory
\* is empty and the child is runnable
C21_Witness ==
  /\ InFork
  /\ Head(stack).pc = "return"
  /\ \E pg \in UserPages : Head(stack).entry[5][pg] # NoPte
  /\ \E k \in 1 .. Len(p_vmmap[Head(stack).entry[1]]) :
       And(p_vmmap[Head(stack).entry[1]][k].vma_flags, MAP_PRIVATE)
  /\ NoUserPte(Head(stack).entry[1])
  /\ kt[Head(stack).o].kt_state = KT_RUN

\* C22: do_fork returns the pid of the new process to its caller, and the
\* registers on the kernel stack of the child are the caller's trap frame
\* as it was when the call was made, with the return register 0
C22_ForkReturn ==
  [][(InFork /\ stack' = << >>) =>
       LET p == Head(stack).entry[1]
           c == Head(stack).o
           regs == Head(stack).entry[2]
       IN /\ last'.op = "fork" /\ last'.proc = p /\ last'.ret = c
          /\ c # p
          /\ p_pproc'[c] = p
          /\ p_state'[c] = "running"
          /\ kt'[c].kregs = [regs EXCEPT !.r_eax = 0]
          /\ kt'[c].kregs.r_ebx = regs.r_ebx
          /\ kt'[c].kregs.r_eax = 0]_vars

\* C22 witness: a fork has returned the child's pid; the child is runnable,
\* its frame holds 0 in the return register and the non-zero other
\* register of the parent's trap frame
C22_Witness ==
  /\ stack = << >>
  /\ last.op = "fork"
  /\ last.ret # last.proc
  /\ kt[last.ret].kt_state = KT_RUN
  /\ kt[last.ret].kregs.r_eax = 0
  /\ kt[last.ret].kregs.r_ebx # 0

(* ------------------------ lifecycle specification ---------------------- *)
\* Processes that fork, exit with a status (in one go, or blocking in the
\* cleanup after the parent was woken) and wait for children, by pid and
\* for any.  A woken sleeper is scheduled and a blocked exit goes on.
WaitPids == {-1} \cup Procs
PrFork == Step(MaxProcSteps) /\ \E p \in Procs : Fork(p)
PrExit == Step(MaxProcSteps) /\ \E p \in Procs, status \in Vals : ExitWith(p, status)
PrExitBlock == Step(MaxProcSteps) /\ \E p \in Procs, status \in Vals : ExitBlock(p, status)
PrExitResume == stack = << >> /\ UNCHANGED <<steps, stack, extvars>> /\ \E p \in Procs : ExitResume(p)
PrWait == Step(MaxProcSteps) /\ \E p \in Procs, pid \in WaitPids : Waitpid(p, pid)
PrWaitResume == stack = << >> /\ UNCHANGED <<steps, stack, extvars>> /\ \E p \in Procs : WaitResume(p)

NextProc ==
  \/ PrFork
  \/ PrExit
  \/ PrExitBlock
  \/ PrExitResume
  \/ PrWait
  \/ PrWaitResume

SpecProc ==
  Init /\ [][NextProc]_vars /\ WF_vars(PrExitResume) /\ WF_vars(PrWaitResume)

\* a step in which do_waitpid returns to process p
WaitReturns(p) ==
  /\ last'.op = "waitpid"
  /\ last'.proc = p
  /\ (steps' # steps \/ (kt[p].pc = "waitpid" /\ kt'[p].pc = "user"))

OnList(c, q) == \E i \in 1 .. Len(p_children[q]) : p_children[q][i] = c

\* C26: do_waitpid returns a pid only for a child of the caller that
\* matches the argument, is PROC_DEAD and whose thread is KT_EXITED; the
\* status it reports is the child's, the child leaves the children list
\* and is destroyed (so no later call can return it); with no children, or
\* with a pid that is not a child, it returns -ECHILD and changes nothing
C26_WaitpidSafe ==
  [][\A p \in Procs : WaitReturns(p) =>
       LET c == last'.ret
           pid == last'.a
       IN /\ c = -ECHILD \/ c \in Procs
          /\ c \in Procs =>
               /\ OnList(c, p)
               /\ pid = -1 \/ pid = c
               /\ p_state[c] = "dead"
               /\ kt[c].kt_state = KT_EXITED
               /\ last'.b = p_status[c]
               /\ \A q \in Procs : \A i \in 1 .. Len(p_children'[q]) : p_children'[q][i] # c
               /\ Len(p_children'[p]) = Len(p_children[p]) - 1
               /\ p_state'[c] = "free"
               /\ kt'[c] = NoThread
          /\ c = -ECHILD =>
               /\ p_children[p] = << >> \/ (pid > 0 /\ ~OnList(pid, p))
               /\ UNCHANGED <<objs, p_state, p_status, p_vmmap, p_pagedir, p_pproc,
                              p_children>>
          /\ (p_children[p] = << >> \/ (pid > 0 /\ ~OnList(pid, p))) => c = -ECHILD]_vars

\* C26 witness: a parent with two dead children has just been handed, by
\* do_waitpid with a positive pid, the second of them with its status
C26_Witness ==
  /\ last.op = "waitpid"
  /\ last.a > 0
  /\ last.ret = last.a
  /\ last.b # 0
  /\ p_state[last.ret] = "free"
  /\ \E c \in Procs : OnList(c, last.proc) /\ p_state[c] = "dead" /\ c < last.ret

\* C29: a live process that is on the children list of init has init as
\* its parent pointer
C29_Reparented ==
  \A c \in Procs :
    (p_state[c] # "free" /\ OnList(c, PID_INIT)) => p_pproc[c] = PID_INIT

\* p sleeps or is about to go round the loop in a do_waitpid that child c,
\* a child of p by list and by parent pointer, matches
WaitingFor(p, c) ==
  /\ kt[p].pc = "waitpid"
  /\ OnList(c, p)
  /\ p_pproc[c] = p
  /\ do_waitpid_match(c, kt[p].arg)

\* C28: whenever a process is blocked in do_waitpid and a child that
\* matches the pid argument is dead, the do_waitpid eventually returns
C28_WaitLive ==
  \A p \in Procs : \A c \in Procs :
    (WaitingFor(p, c) /\ p_state[c] = "dead") ~> (kt[p].pc # "waitpid")

(* ------------------------ busy-page specification ---------------------- *)
\* Processes that fork, write and exit, so that shadow objects hold pages; I/O
\* that raises and lowers the busy flag of such pages; kernel reads of user
\* memory that wait for a busy page; proc_kill of a sleeping process.  A
\* runnable waiter is scheduled and every I/O ends, unless a thread that
\* never yields keeps the processor.
BusyFrames == Objs \X {0}
BzFork == Step(MaxBusySteps) /\ NoSpin /\ \E p \in Procs : Fork(p)
BzFault ==
  /\ Step(MaxBusySteps)
  /\ NoSpin
  /\ \E p \in Procs : FaultWait(p, UserLowPn) \/ FaultNow(p, UserLowPn)
BzRaise == Step(MaxBusySteps) /\ NoSpin /\ \E f \in BusyFrames : BusyRaise(f)
BzLower ==
  /\ stack = << >>
  /\ NoSpin
  /\ UNCHANGED <<steps, stack, extvars>>
  /\ \E f \in BusyFrames : BusyLower(f)
BzRead ==
  /\ Step(MaxBusySteps)
  /\ NoSpin
  /\ \E p \in Procs : ReadWait(p, UserLowPn) \/ ReadNow(p, UserLowPn)
BzResume ==
  /\ stack = << >>
  /\ NoSpin
  /\ UNCHANGED <<steps, stack, extvars>>
  /\ \E p \in Procs : ReadResume(p) \/ FillResume(p)
BzExit == Step(MaxBusySteps) /\ NoSpin /\ \E p \in Procs : ExitQuiet(p)
BzKill == Step(MaxBusySteps) /\ NoSpin /\ \E q \in Procs, p \in Procs : Kill(q, p)

NextBusy ==
  \/ BzFork
  \/ BzFault
  \/ BzRaise
  \/ BzLower
  \/ BzRead
  \/ BzResume
  \/ BzExit
  \/ BzKill

SpecBusy == Init /\ [][NextBusy]_vars /\ WF_vars(BzLower) /\ WF_vars(BzResume)

\* a thread that waits for a busy page and is not cancelled gets its page
BusyWaitEnds ==
  \A t \in Procs :
    (kt[t].pc = "busywait" /\ ~kt[t].kt_cancelled)
      ~> (kt[t].pc = "user" \/ kt[t].kt_cancelled)

\* C30: a thread cancelled while it waits for a busy page inside the shadow
\* lookup eventually leaves the lookup, and the caller is handed an error
C30_CancelledWaitEnds ==
  \A t \in Procs :
    (kt[t].pc = "busywait" /\ kt[t].kt_cancelled)
      ~> (kt[t].pc = "user" /\ last.op = "vmmap_read" /\ last.proc = t /\ last.ret # 0)

\* the frame a thread's sleep in the shadow lookup or fill was for
Waited(p) == kt[p].wait

\* the step is a call that entered the kernel (not the resumption of a
\* sleeper) and ended with op on behalf of process p
Called(op, p) == steps' = steps + 1 /\ last'.op = op /\ last'.proc = p

\* C31: with several threads looking up the same page of a shadow object,
\* the frame shadow_lookuppage returns and the frame shadow_fillpage copies
\* from never has its busy flag set, and the frame probed again after a
\* sleep is always resident
C31_BusyProbe ==
  [][\A p \in Procs :
       /\ kt'[p].pc # "oops"
       /\ (kt[p].pc \in {"busywait", "fillwait"} /\ kt'[p].pc = "user")
            => /\ pframe_get_resident(objs, Waited(p)[1], Waited(p)[2]) # NoFrame
               /\ Waited(p) \notin pf_busy
       /\ (Called("vmmap_read", p) /\ kt[p].pc = "user")
            => LookupFrame(p, last'.a) \notin pf_busy
       /\ (Called("fault", p) /\ kt[p].pc = "user" /\ last'.b = 1 /\ Fills(p, last'.a))
            => FillSource(p, last'.a) \notin pf_busy]_vars

\* a thread got its page after sleeping for it while a second thread is
\* still in the wait loop for the same frame
C31_Witness ==
  /\ last.op \in {"vmmap_read", "fault"}
  /\ "waited" \in DOMAIN last.args
  /\ kt[last.proc].pc = "user"
  /\ \E q \in Procs :
       /\ q # last.proc
       /\ kt[q].pc \in {"busywait", "fillwait"}
       /\ kt[q].wait = last.args.waited

(* ---------------------- vmarea-list specification ---------------------- *)
\* Processes that map shared and private areas of the file and anonymous
\* areas, at a fixed page or where the kernel finds room, unmap ranges, fork
\* and exit; only the vmareas and the lists of the bottom objects are
\* followed.  A call that would run the slab allocator dry is left out.
LkMmapApply(p, b, lopage, npages, flags) ==
  /\ lopage \in UserPages
  /\ lopage + npages <= UserHighPn
  /\ b <= MaxBottoms
  /\ Cardinality(FreeAreas(lk)) > Cardinality(SplitBy(lk, p, lopage, lopage + npages))
  /\ lk' = vmmap_map_olink(lk, p, b, lopage, npages, flags)

LkMmap(p, lopage, npages, flags) ==
  /\ lk.live[p]
  /\ LkMmapApply(p, IF And(flags, MAP_ANON) THEN FileBottom + 1 + lk.anon ELSE FileBottom,
                 IF lopage = 0
                 THEN vmmap_find_range(AreasOfMap(lk, p), npages, VMMAP_DIR_HILO)
                 ELSE lopage,
                 npages, flags)

LkMunmap(p, lopage, npages) ==
  /\ lk.live[p]
  /\ lopage + npages <= UserHighPn
  /\ Cardinality(FreeAreas(lk)) >= Cardinality(SplitBy(lk, p, lopage, lopage + npages))
  /\ lk' = vmmap_remove_olink(lk, p, lopage, npages)

LkFork(p) ==
  /\ lk.live[p]
  /\ \E c \in Procs :
       /\ ~lk.live[c]
       /\ \A d \in Procs : ~lk.live[d] => c <= d
       /\ Cardinality(FreeAreas(lk)) >= Len(lk.map[p])
       /\ lk' = do_fork_olink(lk, p, c)

LkExit(p) ==
  /\ lk.live[p]
  /\ lk' = vmmap_destroy_olink(lk, p)

LinkMmap ==
  /\ Tick(MaxLinkSteps)
  /\ UNCHANGED <<corevars, lkrest>>
  /\ \E p \in Procs, lopage \in {0} \cup UserPages, npages \in 1 .. MaxLenPages,
        flags \in {MAP_SHARED, MAP_PRIVATE, MAP_SHARED \cup MAP_ANON} :
       LkMmap(p, lopage, npages, flags)
LinkMunmap ==
  /\ Tick(MaxLinkSteps)
  /\ UNCHANGED <<corevars, lkrest>>
  /\ \E p \in Procs, lopage \in UserPages, npages \in 1 .. MaxLenPages :
       LkMunmap(p, lopage, npages)
LinkFork == Tick(MaxLinkSteps) /\ UNCHANGED <<corevars, lkrest>> /\ \E p \in Procs : LkFork(p)
LinkExit == Tick(MaxLinkSteps) /\ UNCHANGED <<corevars, lkrest>> /\ \E p \in Procs : LkExit(p)

NextLink ==
  \/ LinkMmap
  \/ LinkMunmap
  \/ LinkFork
  \/ LinkExit

SpecLink == Init /\ [][NextLink]_vars

\* the vmareas on the list of bottom object b: the links followed through
\* l_next from the head until the head comes round again
RECURSIVE ListWalk(_, _, _, _)
ListWalk(L, h, n, k) ==
  IF n = h \/ n = NULL \/ k = 0 THEN << >>
  ELSE <<n>> \o ListWalk(L, h, L[n].l_next, k - 1)

mmo_vmas(s, b) == ListWalk(s.link, HeadOf(b), s.link[HeadOf(b)].l_next, MaxAreas + 1)

\* the live vmareas whose bottom object is b
BottomAreas(s, b) == {a \in AreaSlots : s.vma[a].used /\ s.vma[a].bottom = b}

\* C32: the list of every non-shadow mmobj holds exactly the live vmareas
\* whose bottom object it is, each of them once
C32_VmaSets ==
  \A b \in Bottoms :
    /\ {mmo_vmas(lk, b)[i] : i \in DOMAIN mmo_vmas(lk, b)} = BottomAreas(lk, b)
    /\ \A i, j \in DOMAIN mmo_vmas(lk, b) :
         mmo_vmas(lk, b)[i] = mmo_vmas(lk, b)[j] => i = j

(* ----------------------- file-offset specification --------------------- *)
\* One process maps windows of the regular file at page-aligned byte offsets,
\* shared and private, and touches the pages through faults and through
\* vmmap_read and vmmap_write.  No area is ever trimmed, so the vma_start of
\* an area is where do_mmap placed it and its vma_off is what vmmap_map
\* stored for the off argument.
Offsets == {PN_TO_ADDR(k) : k \in 0 .. MaxOffPages}
OffMmap ==
  /\ Step(MaxOffSteps)
  /\ \E len \in {PAGE_SIZE, 2 * PAGE_SIZE}, flags \in {MAP_SHARED, MAP_PRIVATE},
        off \in Offsets :
       Mmap(1, 0, len, RW, flags, "file", off)
OffFault ==
  Step(MaxOffSteps) /\ \E pg \in UserPages, cause \in Causes : Fault(1, pg, cause)
OffRead == Step(MaxOffSteps) /\ \E pg \in UserPages : VmmapRead(1, pg)
OffWrite == Step(MaxOffSteps) /\ \E pg \in UserPages : VmmapWrite(1, pg, MaxVal)

NextOff ==
  \/ OffMmap
  \/ OffFault
  \/ OffRead
  \/ OffWrite

SpecOff == Init /\ [][NextOff]_vars

\* the area of process p that page pg lies in
AreaOf(p, pg) == p_vmmap[p][vmmap_lookup(p_vmmap[p], pg)]

\* the page of the backing object that page pg of a mapping made at byte
\* offset vma_off stands for: the offset in pages plus the page's position
\* in the area
BackingIndex(p, pg) ==
  AreaOf(p, pg).vma_off \div PAGE_SIZE + (pg - AreaOf(p, pg).vma_start)

\* do_mmap stores its off argument in the new area
OffStored ==
  [][(steps' # steps /\ last'.op = "mmap" /\ last'.ret = 0) =>
       \E i \in DOMAIN p_vmmap'[1] :
         /\ p_vmmap'[1][i].vma_off = last'.args.off
         /\ p_vmmap'[1][i].vma_start = last'.a]_vars

\* C33: a fault, a vmmap_read or a vmmap_write on the k-th page of an area
\* mapped at byte offset off goes to page off / PAGE_SIZE + k of the backing
\* object
C33_PageIndex ==
  [][\A pg \in UserPages :
       /\ (Called("fault", 1) /\ last'.a = pg /\ last'.ret = 0)
            => p_pagedir'[1][pg].pf[2] = BackingIndex(1, pg)
       /\ (Called("vmmap_read", 1) /\ last'.a = pg)
            => vmmap_iop(objs, p_vmmap[1], PN_TO_ADDR(pg), FALSE).pf[2] = BackingIndex(1, pg)
       /\ (Called("vmmap_write", 1) /\ last'.a = pg)
            => vmmap_iop(objs, p_vmmap[1], PN_TO_ADDR(pg), TRUE).pf[2] = BackingIndex(1, pg)]_vars

\* the same for mappings made at offset 0
PageIndexAtZero ==
  [][\A pg \in UserPages :
       (Called("fault", 1) /\ last'.a = pg /\ last'.ret = 0 /\ AreaOf(1, pg).vma_off = 0)
         => p_pagedir'[1][pg].pf[2] = BackingIndex(1, pg)]_vars

(* -------------------- vmmap-allocation specification ------------------- *)
\* Processes that fork, exit and are waited for; besides the process state
\* the number of vmmap structures that are allocated is followed.
VmFork ==
  /\ Tick(MaxVmSteps)
  /\ UNCHANGED vmrest
  /\ vmmaps' = do_fork_vmmaps(vmmaps)
  /\ \E p \in Procs : Fork(p)
VmExit ==
  /\ Tick(MaxVmSteps)
  /\ UNCHANGED vmrest
  /\ vmmaps' = vmmap_destroy_vmmaps(vmmaps)
  /\ \E p \in Procs : ExitWith(p, 0)
VmWait ==
  /\ Tick(MaxVmSteps)
  /\ UNCHANGED extvars
  /\ \E p \in Procs : Waitpid(p, -1)
VmWaitResume ==
  /\ stack = << >>
  /\ UNCHANGED <<steps, stack, extvars>>
  /\ \E p \in Procs : WaitResume(p)

NextVm ==
  \/ VmFork
  \/ VmExit
  \/ VmWait
  \/ VmWaitResume

SpecVm == Init /\ [][NextVm]_vars

\* the processes that have not run proc_cleanup yet
NotCleaned == {p \in Procs : p_state[p] = "running"}

\* C34: between system calls there are as many vmmaps allocated as there
\* are processes that have not run their cleanup
C34_VmmapCount == vmmaps = Cardinality(NotCleaned)

(* ----------------------- descriptor specification ---------------------- *)
\* Processes that duplicate, close, read, write, seek and list their
\* descriptors, good and bad ones, fork and exit.
FdArgs == -1 .. NumFiles
FdCall(p) ==
  \/ \E fd \in FdArgs :
       \/ ftab' = do_read(ftab, p, fd)
       \/ ftab' = do_write(ftab, p, fd)
       \/ \E valid \in BOOLEAN : ftab' = do_lseek(ftab, p, fd, valid)
       \/ ftab' = do_getdent(ftab, p, fd)
FdClose == 
  /\ Tick(MaxFdSteps)
  /\ UNCHANGED <<corevars, fdrest>>
  /\ \E p \in Procs, fd \in FdArgs : ftab.live[p] /\ ftab' = do_close(ftab, p, fd)
FdDup ==
  /\ Tick(MaxFdSteps)
  /\ UNCHANGED <<corevars, fdrest>>
  /\ \E p \in Procs, fd \in FdArgs : ftab.live[p] /\ ftab' = do_dup(ftab, p, fd)
FdDup2 ==
  /\ Tick(MaxFdSteps)
  /\ UNCHANGED <<corevars, fdrest>>
  /\ \E p \in Procs, ofd \in FdArgs, nfd \in FdArgs :
       ftab.live[p] /\ ftab' = do_dup2(ftab, p, ofd, nfd)
FdIo ==
  /\ Tick(MaxFdSteps)
  /\ UNCHANGED <<corevars, fdrest>>
  /\ \E p \in Procs : ftab.live[p] /\ FdCall(p)
FdFork ==
  /\ Tick(MaxFdSteps)
  /\ UNCHANGED <<corevars, fdrest>>
  /\ \E p \in Procs, c \in Procs :
       /\ ftab.live[p]
       /\ ~ftab.live[c]
       /\ \A d \in Procs : ~ftab.live[d] => c <= d
       /\ ftab' = do_fork_files(ftab, p, c)
FdExit ==
  /\ Tick(MaxFdSteps)
  /\ UNCHANGED <<corevars, fdrest>>
  /\ \E p \in Procs : ftab.live[p] /\ ftab' = proc_cleanup_files(ftab, p)

NextFd ==
  \/ FdClose
  \/ FdDup
  \/ FdDup2
  \/ FdIo
  \/ FdFork
  \/ FdExit

SpecFd == Init /\ [][NextFd]_vars

\* the descriptor slots, over all processes, that point to file f
SlotsOf(f) == {s \in Procs \X FdSlots : ftab.p_files[s[1]][s[2]] = f}

\* C35: between system calls the reference count of every open file is the
\* number of descriptor slots that point to it
C35_FileBalance == \A f \in OpenFiles : ftab.f_refcount[f] = Cardinality(SlotsOf(f))

\* do_dup found the table full and gave its reference back, in a process
\* whose files are also held by a process it forked
C35_Witness ==
  /\ ftab.op = "dup"
  /\ ftab.ret = -EMFILE
  /\ \E p \in Procs, q \in Procs :
       /\ p # q
       /\ ftab.live[p] /\ ftab.live[q]
       /\ \A fd \in FdSlots : ftab.p_files[p][fd] # NoFile
       /\ \E fd \in FdSlots :
            /\ ftab.p_files[q][fd] # NoFile
            /\ ftab.f_refcount[ftab.p_files[q][fd]] >= 3

(* ------------------------ terminal specification ----------------------- *)
\* The driver delivers characters, one at a time or as many in a row as the
\* index type has values less one; a reader takes up to len bytes once a
\* line is complete.
Bursts == {1, TtyIndexMod - 1}
ReadLens == {1, TtyIndexMod}
TtyMark(nt, op, c, n) == [nt EXCEPT !.op = op, !.c = c, !.n = n, !.hi = -1]

TtyReceive ==
  /\ Tick(MaxTtySteps)
  /\ UNCHANGED <<corevars, ttyrest>>
  /\ \E c \in Chars, n \in Bursts :
       ntty' = n_tty_receive_burst(TtyMark(ntty, "receive", c, n), c, n)
TtyRead ==
  /\ Tick(MaxTtySteps)
  /\ UNCHANGED <<corevars, ttyrest>>
  /\ ntty.rhead # ntty.ckdtail
  /\ \E len \in ReadLens : ntty' = n_tty_read(TtyMark(ntty, "read", "nul", len), len)

NextTty ==
  \/ TtyReceive
  \/ TtyRead

SpecTty == Init /\ [][NextTty]_vars

\* C36: a character other than a backspace that arrives while the circular
\* buffer is full (rawtail one behind rhead in the index type, the last
\* index before rhead 0 included) is dropped: the indices and the stored
\* characters stay as they were
C36_FullDrops ==
  [][(/\ ntty'.op = "receive"
      /\ ntty'.n = 1
      /\ ntty'.c # "bs"
      /\ n_tty_full_wrapped(ntty))
     => (/\ ntty'.rhead = ntty.rhead
         /\ ntty'.rawtail = ntty.rawtail
         /\ ntty'.ckdtail = ntty.ckdtail
         /\ ntty'.inbuf = ntty.inbuf)]_vars

\* the same with rawtail + 1 not wrapping: the character is dropped
FullDropsUnwrapped ==
  [][(/\ ntty'.op = "receive"
      /\ ntty'.n = 1
      /\ ntty'.c # "bs"
      /\ n_tty_full_wrapped(ntty)
      /\ ntty.rawtail + 1 < TtyIndexMod)
     => (/\ ntty'.rhead = ntty.rhead
         /\ ntty'.rawtail = ntty.rawtail
         /\ ntty'.ckdtail = ntty.ckdtail
         /\ ntty'.inbuf = ntty.inbuf)]_vars

\* C39: every access of the input buffer uses an index below the number of
\* bytes n_tty_attach allocated
C39_IndexInBounds == ntty.hi < ntty.alloc

(* --------------------------- PID specification -------------------------- *)
\* Processes create processes, exit and reap their dead children; the idle
\* process and init stay.
PidCreate ==
  /\ Tick(MaxPidSteps)
  /\ UNCHANGED <<corevars, pidrest>>
  /\ ~pt.halted
  /\ \E cur \in ProcSlots, s \in ProcSlots :
       /\ pt.proc[cur].p_state = "running"
       /\ pt.proc[s].p_state = "free"
       /\ \A q \in ProcSlots : pt.proc[q].p_state = "free" => s <= q
       /\ pt' = proc_create_pid(pt, cur, s)
PidExit ==
  /\ Tick(MaxPidSteps)
  /\ UNCHANGED <<corevars, pidrest>>
  /\ ~pt.halted
  /\ \E s \in ProcSlots :
       /\ pt.proc[s].p_state = "running"
       /\ pt.proc[s].p_pid \notin {PID_IDLE, PID_INIT}
       /\ pt' = proc_cleanup_pid(pt, s)
PidWait ==
  /\ Tick(MaxPidSteps)
  /\ UNCHANGED <<corevars, pidrest>>
  /\ ~pt.halted
  /\ \E cur \in ProcSlots, s \in ProcSlots :
       /\ pt.proc[cur].p_state = "running"
       /\ pt.proc[s].p_state = "dead"
       /\ pt.proc[s].p_pproc = cur
       /\ pt' = do_waitpid_pid(pt, cur, s)

NextPid ==
  \/ PidCreate
  \/ PidExit
  \/ PidWait

SpecPid == Init /\ [][NextPid]_vars

\* the processes not yet reaped, running or dead
Unreaped == {q \in ProcSlots : pt.proc[q].p_state # "free"}

\* C37: no two processes that are not yet reaped have the same PID
C37_PidsUnique ==
  \A q \in Unreaped, r \in Unreaped : q # r => pt.proc[q].p_pid # pt.proc[r].p_pid

\* no two processes on _proc_list have the same PID
ListedPidsUnique ==
  \A q \in pt.proc_list, r \in pt.proc_list : q # r => pt.proc[q].p_pid # pt.proc[r].p_pid

(* --------------------- writable page-table entries ---------------------- *)
\* Processes that fork, fault for reading and for writing, store, map
\* privately (anonymous memory and the file, at a kernel-chosen address
\* and MAP_FIXED), unmap and move the break.
WrLens == {PAGE_SIZE, 2 * PAGE_SIZE}
WrFork == Step(MaxWrSteps) /\ \E p \in Procs : Fork(p)
WrFault ==
  /\ Step(MaxWrSteps)
  /\ \E p \in Procs, pg \in UserPages, cause \in Causes : Fault(p, pg, cause)
WrStore == Step(MaxWrSteps) /\ \E p \in Procs, pg \in UserPages : UserStore(p, pg, MaxVal)
WrMmap ==
  /\ Step(MaxWrSteps)
  /\ \E p \in Procs, len \in WrLens, anon \in {MAP_ANON, {}} :
       \/ Mmap(p, 0, len, RW, MAP_PRIVATE \cup anon, "file", 0)
       \/ \E addr \in PageAddrs :
            Mmap(p, addr, len, RW, MAP_PRIVATE \cup anon \cup MAP_FIXED, "file", 0)
WrMunmap ==
  /\ Step(MaxWrSteps)
  /\ \E p \in Procs, addr \in PageAddrs, len \in WrLens : Munmap(p, addr, len)
WrBrk ==
  /\ Step(MaxWrSteps)
  /\ \E p \in Procs, addr \in PageAddrs \cup {USER_MEM_HIGH} : Brk(p, addr)

NextWr ==
  \/ WrFork
  \/ WrFault
  \/ WrStore
  \/ WrMmap
  \/ WrMunmap
  \/ WrBrk

SpecWr == Init /\ [][NextWr]_vars

\* the area of process p that holds page pg, NoArea when there is none
AreaOfPage(p, pg) ==
  IF vmmap_lookup(p_vmmap[p], pg) = NULL THEN NoArea
  ELSE p_vmmap[p][vmmap_lookup(p_vmmap[p], pg)]

\* the writable entries of the page tables that lie in a private area
PrivateWritable ==
  {e \in Procs \X UserPages :
     /\ p_pagedir[e[1]][e[2]] # NoPte
     /\ p_pagedir[e[1]][e[2]].write
     /\ AreaOfPage(e[1], e[2]) # NoArea
     /\ And(AreaOfPage(e[1], e[2]).vma_flags, MAP_PRIVATE)}

\* C38: every writable page-table entry inside a MAP_PRIVATE area maps a
\* frame owned by the memory object on top of that area's chain
C38_WritableOnTop ==
  \A e \in PrivateWritable :
    p_pagedir[e[1]][e[2]].pf[1] = AreaOfPage(e[1], e[2]).vma_obj

(* ---------------------------- kill specification ------------------------ *)
\* proc_kill(p, status) called by process q on another process, whatever
\* its thread does: KASSERT on p_state, then kthread_cancel of the thread
ProcKillApply(q, p, r) ==
  /\ kt' = r.kt
  /\ last' = Op(IF r.panic THEN "panic" ELSE "kill", q, p, 0, 0)
  /\ UNCHANGED <<objs, p_state, p_status, p_vmmap, p_pagedir, p_brk, p_start_brk,
                 f_refcount, p_pproc, p_children, pf_busy>>
ProcKill(q, p) ==
  /\ Running(q)
  /\ q # p
  /\ p_state[p] \in {"running", "dead"}
  /\ ProcKillApply(q, p, kthread_cancel(kt, p))

\* the kernel has panicked: nothing runs any more
Halted == last.op = "panic"

\* Processes that fork, wait for children (asleep, cancellably, while a
\* child runs), exit, and kill each other.
KlFork == Step(MaxKillSteps) /\ ~Halted /\ \E p \in Procs : Fork(p)
KlExit == Step(MaxKillSteps) /\ ~Halted /\ \E p \in Procs : ExitWith(p, 0)
KlWait == Step(MaxKillSteps) /\ ~Halted /\ \E p \in Procs, pid \in WaitPids : Waitpid(p, pid)
KlWaitResume ==
  /\ stack = << >>
  /\ ~Halted
  /\ UNCHANGED <<steps, stack, extvars>>
  /\ \E p \in Procs : WaitResume(p)
KlKill == Step(MaxKillSteps) /\ ~Halted /\ \E q \in Procs, p \in Procs : ProcKill(q, p)

NextKill ==
  \/ KlFork
  \/ KlExit
  \/ KlWait
  \/ KlWaitResume
  \/ KlKill

SpecKill == Init /\ [][NextKill]_vars

\* C40: proc_kill on a process other than the caller never halts the
\* kernel, and the thread of the target is cancelled whatever state it was
\* in
C40_KillCancels ==
  last.op \in {"kill", "panic"} => (last.op = "kill" /\ kt[last.a].kt_cancelled)

\* proc_kill on a process whose thread sleeps cancels the thread
KillCancelsSleeper ==
  [][\A p \in Procs :
       (last'.op \in {"kill", "panic"} /\ last'.a = p /\ steps' # steps
        /\ kt[p].kt_state \in {KT_SLEEP, KT_SLEEP_CANCELLABLE})
       => (last'.op = "kill" /\ kt'[p].kt_cancelled)]_vars


====
